---------------------------- MODULE SteamWorkshop ----------------------------
(***************************************************************************)
(* The Steam Workshop (src/modules/steam_ugc.c): listing the items the     *)
(* user is subscribed to, and filling in the draft of an item's update     *)
(* through the handle Steam gives out for it.                              *)
(*                                                                         *)
(* Steam may change subscriptions at any time, also between the two Steam  *)
(* calls that list them.  Handles and enumerators are cast on their way:   *)
(* PHP's integers are signed 64-bit, Steam's handles unsigned 64-bit, its  *)
(* enumerators 32-bit; all are cut to small widths here.                   *)
(*                                                                         *)
(* How the result of an asynchronous call reaches the script is modelled   *)
(* in SteamCallResults; here such a call is what Steam does because of it. *)
(***************************************************************************)
EXTENDS SteamInterfaces, SequencesExt

CONSTANTS
  Items,         (* PublishedFileId_t values (never 0).                     *)
  UpdateHandles, (* The UGCUpdateHandle_t values Steam may hand out.        *)
  INT64_MAX,     (* Largest PHP integer.                                    *)
  INT32_MAX,     (* Largest enumerator of a flat call.                      *)
  Texts,         (* What a script writes into a text field: the non-empty   *)
                 (* sequence of the parts its NUL bytes separate.           *)
  Visibilities,  (* The integers a script passes as visibility.             *)
  TagArrays,     (* The arrays it passes as tags: texts and NoString.       *)
  NoString,      (* An array element that is not a string.                  *)
  MaxEdits,      (* Bound: how many setters succeed.                        *)
  MaxChanges     (* Bound: how often subscriptions change.                  *)

UINT64_MAX == 2 * INT64_MAX + 1
k_UGCUpdateHandleInvalid == UINT64_MAX

(* STEAM_UGC_VISIBILITY_PUBLIC ... STEAM_UGC_VISIBILITY_UNLISTED           *)
VisibilityEnumerators == 0..3

WorkshopAssumption ==
  /\ 0 \notin Items /\ IsFiniteSet(Items)
  /\ MaxEdits \in Nat /\ MaxChanges \in Nat
  /\ INT64_MAX \in Nat /\ INT32_MAX \in 3..INT64_MAX
  /\ UpdateHandles \subseteq 0..(UINT64_MAX - 1)
  /\ \A text \in Texts : text # <<>> /\ text \in Seq(Range(text))
  /\ \A arr \in TagArrays : arr \in Seq(Texts \cup {NoString})

VARIABLES
  subscribed,  (* Steam: item -> "no", "enabled" or "disabled".             *)
  changes,     (* Changes of subscriptions so far.                          *)
  jobs,        (* Steam: subscribe and unsubscribe calls still to be done.  *)
  call,        (* steam_ugc_get_subscribed_items() in progress, or Idle;    *)
               (* quiet records that no subscription has changed since.     *)
  returned,    (* What it returned, if it has just ended, else Nothing.     *)
  drafts,      (* Steam: update handle -> "none", "open" or "closed".       *)
  passed,      (* Steam: update handle -> what its setters were passed.     *)
  meant        (* History: PHP's handle -> what the script set, in order.   *)

listVars == <<subscribed, changes, jobs, call, returned>>
draftVars == <<drafts, passed, meant>>
vars == <<ifaceVars, listVars, draftVars>>

Idle == [fn |-> "none", quiet |-> FALSE]
Nothing == [fn |-> "none"]

(* Modulo 2^w, from the smallest integer on.                               *)
Wrapped(n, max) == ((n + max + 1) % (2 * max + 2)) - (max + 1)

(* (zend_long)handle, and (UGCUpdateHandle_t)handle on the way back.       *)
ToLong(n) == Wrapped(n, INT64_MAX)
ToUint64(n) == n % (UINT64_MAX + 1)

(* (int)visibility                                                         *)
ToInt(n) == Wrapped(n, INT32_MAX)

(* A char * ends at its first NUL byte.                                    *)
CString(text) == <<Head(text)>>

UGC == "ISteamUGC"

(* A function is entered and resolves its interface.                       *)
UgcCall ==
  /\ call = Idle
  /\ steamworks_resolve(UGC)
  /\ returned' = Nothing

-----------------------------------------------------------------------------
(* Subscriptions.                                                          *)

Change(i, to) ==
  /\ user = 1
  /\ changes < MaxChanges /\ changes' = changes + 1
  /\ subscribed' = [subscribed EXCEPT ![i] = to]
  /\ call' = [call EXCEPT !.quiet = FALSE]
  /\ returned' = Nothing
  /\ UNCHANGED <<ifaceVars, draftVars>>

(* The user subscribes, unsubscribes or disables an item in Steam itself.  *)
UserChanges(i) ==
  /\ \E to \in {"no", "enabled", "disabled"} \ {subscribed[i]} : Change(i, to)
  /\ UNCHANGED jobs

(* Steam does an accepted call, while a listing is under way or not.       *)
SteamWorks(job) ==
  /\ Change(job.item, job.to)
  /\ jobs' = jobs \ {job}

(* FALSE without an interface or when Steam returns handle 0.              *)
Ask(job) ==
  /\ UgcCall
  /\ \/ UNCHANGED jobs
     \/ Found(UGC) /\ jobs' = jobs \cup {job}
  /\ UNCHANGED <<subscribed, changes, call, draftVars>>

steam_ugc_subscribe_item(i) == Ask([item |-> i, to |-> "enabled"])
steam_ugc_unsubscribe_item(i) == Ask([item |-> i, to |-> "no"])

(* What both Steam calls go by, each at its own time.                      *)
Counted(disabled) ==
  {i \in Items : subscribed[i] \in IF disabled THEN {"enabled", "disabled"} ELSE {"enabled"}}

(* A slip: include_disabled forgotten when the items are counted.          *)
BufferSize_EnabledOnly(disabled) == Cardinality(Counted(FALSE))

(* The buffer has room for as many items as there are at this moment.      *)
BufferSize(disabled) == Cardinality(Counted(disabled))

(* The first Steam call; with nothing to list the function ends here.      *)
steam_ugc_get_subscribed_items(disabled) ==
  /\ call = Idle
  /\ steamworks_resolve(UGC)
  /\ Found(UGC)
  /\ IF BufferSize(disabled) = 0
       THEN /\ returned' = [fn |-> "list", disabled |-> disabled, quiet |-> TRUE, ids |-> <<>>]
            /\ UNCHANGED call
       ELSE /\ call' = [fn |-> "list", disabled |-> disabled, quiet |-> TRUE,
                        count |-> BufferSize(disabled)]
            /\ returned' = Nothing
  /\ UNCHANGED <<subscribed, changes, jobs, draftVars>>

(* As many of the buffer's ids as Steam says it has written.               *)
IdsReturned(buffer, written) == SubSeq(buffer, 1, written)

(* The second Steam call fills the buffer with what is subscribed by now,  *)
(* as far as there is room; 0 stands for an id nobody has written.         *)
GetSubscribedItems ==
  /\ call.fn = "list" /\ call' = Idle
  /\ \E ids \in SetToSeqs(Counted(call.disabled)) :
       LET written == IF Len(ids) < call.count THEN Len(ids) ELSE call.count
           buffer == [n \in 1..call.count |-> IF n <= written THEN ids[n] ELSE 0]
       IN returned' = [fn |-> "list", disabled |-> call.disabled, quiet |-> call.quiet,
                       ids |-> IdsReturned(buffer, written)]
  /\ UNCHANGED <<ifaceVars, subscribed, changes, jobs, draftVars>>

(* Creating or deleting an item, counts, state, sizes and progress passed  *)
(* on from Steam, and the listing when it finds no interface.              *)
PassThrough ==
  /\ UgcCall
  /\ UNCHANGED <<subscribed, changes, jobs, call, draftVars>>

-----------------------------------------------------------------------------
(* The draft of an update.                                                 *)

IsOpen(h) == h \in UpdateHandles /\ drafts[h] = "open"

(* Returns ToLong of the handle; -1 when Steam starts no update.           *)
steam_ugc_start_item_update ==
  /\ UgcCall
  /\ \/ UNCHANGED drafts
     \/ /\ Found(UGC)
        /\ \E h \in UpdateHandles :
             drafts[h] = "none" /\ drafts' = [drafts EXCEPT ![h] = "open"]
  /\ UNCHANGED <<subscribed, changes, jobs, call, passed, meant>>

EditsSoFar == SumFunction([handle \in DOMAIN meant |-> Len(meant[handle])])

(* A setter: FALSE, or TRUE when Steam takes the value for its open draft. *)
SetField(handle, field, asked, value) ==
  /\ UgcCall
  /\ \/ UNCHANGED draftVars
     \/ LET h == ToUint64(handle) IN
          /\ Found(UGC) /\ IsOpen(h) /\ EditsSoFar < MaxEdits
          /\ passed' = [passed EXCEPT ![h] = Append(@, [field |-> field, value |-> value])]
          /\ meant' = [meant EXCEPT ![handle] = Append(@, [field |-> field, value |-> asked])]
          /\ UNCHANGED drafts
  /\ UNCHANGED <<subscribed, changes, jobs, call>>

steam_ugc_set_item_title(handle, text) == SetField(handle, "title", text, CString(text))
steam_ugc_set_item_description(handle, text) ==
  SetField(handle, "description", text, CString(text))
steam_ugc_set_item_content(handle, text) == SetField(handle, "content", text, CString(text))
steam_ugc_set_item_preview(handle, text) == SetField(handle, "preview", text, CString(text))

(* Steam takes an enumerator of the type only.                             *)
steam_ugc_set_item_visibility(handle, visibility) ==
  /\ SetField(handle, "visibility", visibility, ToInt(visibility))
  /\ passed' # passed => ToInt(visibility) \in VisibilityEnumerators

(* Where an array holds strings, and the strings: each one comes after as  *)
(* many of them as there are before it in the array.                       *)
StringsAt(arr) == {n \in DOMAIN arr : arr[n] # NoString}
StringsUpTo(arr, n) == Cardinality({m \in StringsAt(arr) : m <= n})
Strings(arr) ==
  [k \in 1..Cardinality(StringsAt(arr)) |->
     arr[CHOOSE n \in StringsAt(arr) : StringsUpTo(arr, n) = k]]

(* A slip: the number of array elements used as the number of strings.     *)
ParamStringArray_AllCounted(arr) ==
  [n \in DOMAIN arr |->
     IF n \in DOMAIN Strings(arr) THEN CString(Strings(arr)[n]) ELSE <<"garbage">>]

(* The strings of the array, packed, and counted as they are packed.       *)
ParamStringArray(arr) == [n \in DOMAIN Strings(arr) |-> CString(Strings(arr)[n])]

steam_ugc_set_item_tags(handle, arr) == SetField(handle, "tags", arr, ParamStringArray(arr))

(* Submitting closes a draft, if Steam accepts it.                         *)
steam_ugc_submit_item_update(handle) ==
  /\ UgcCall
  /\ \/ UNCHANGED drafts
     \/ /\ Found(UGC) /\ IsOpen(ToUint64(handle))
        /\ drafts' = [drafts EXCEPT ![ToUint64(handle)] = "closed"]
  /\ UNCHANGED <<subscribed, changes, jobs, call, passed, meant>>

-----------------------------------------------------------------------------
steam_init(client) ==
  /\ call = Idle
  /\ SteamAPI_InitFlat(client)
  /\ returned' = Nothing
  /\ UNCHANGED <<subscribed, changes, jobs, call, draftVars>>

(* Open drafts and undone calls end with the session.                      *)
steam_shutdown ==
  /\ call = Idle
  /\ SteamAPI_Shutdown
  /\ jobs' = {}
  /\ drafts' = [h \in UpdateHandles |-> IF drafts[h] = "open" THEN "closed" ELSE drafts[h]]
  /\ returned' = Nothing
  /\ UNCHANGED <<subscribed, changes, call, passed, meant>>

PhpHandles == {ToLong(h) : h \in UpdateHandles}

Init ==
  /\ IfaceInit
  /\ subscribed = [i \in Items |-> "no"] /\ changes = 0 /\ jobs = {}
  /\ call = Idle /\ returned = Nothing
  /\ drafts = [h \in UpdateHandles |-> "none"]
  /\ passed = [h \in UpdateHandles |-> <<>>]
  /\ meant = [handle \in PhpHandles |-> <<>>]

Setters(handle) ==
  \/ \E text \in Texts :
       \/ steam_ugc_set_item_title(handle, text)
       \/ steam_ugc_set_item_description(handle, text)
       \/ steam_ugc_set_item_content(handle, text)
       \/ steam_ugc_set_item_preview(handle, text)
  \/ \E v \in Visibilities : steam_ugc_set_item_visibility(handle, v)
  \/ \E arr \in TagArrays : steam_ugc_set_item_tags(handle, arr)

Next ==
  \/ \E client \in Clients : steam_init(client)
  \/ steam_shutdown
  \/ \E i \in Items :
       UserChanges(i) \/ steam_ugc_subscribe_item(i) \/ steam_ugc_unsubscribe_item(i)
  \/ \E job \in jobs : SteamWorks(job)
  \/ \E disabled \in BOOLEAN : steam_ugc_get_subscribed_items(disabled)
  \/ GetSubscribedItems
  \/ steam_ugc_start_item_update
  \/ \E handle \in PhpHandles \cup {ToLong(k_UGCUpdateHandleInvalid)} :
       Setters(handle) \/ steam_ugc_submit_item_update(handle)
  \/ PassThrough

Spec == Init /\ [][Next]_vars

-----------------------------------------------------------------------------
TypeOK ==
  /\ IfaceTypeOK
  /\ subscribed \in [Items -> {"no", "enabled", "disabled"}]
  /\ changes \in 0..MaxChanges
  /\ jobs \subseteq [item : Items, to : {"enabled", "no"}]
  /\ call.quiet \in BOOLEAN
  /\ call.fn = "list" => call.disabled \in BOOLEAN /\ call.count \in 1..Cardinality(Items)
  /\ returned = Nothing \/ returned.ids \in Seq(Items)
  /\ drafts \in [UpdateHandles -> {"none", "open", "closed"}]
  /\ DOMAIN passed = UpdateHandles /\ DOMAIN meant = PhpHandles

(* The array steam_ugc_get_subscribed_items() returns names each item at   *)
(* most once, only items that are subscribed as it returns, and all of     *)
(* them unless a subscription changed between its two Steam calls, which   *)
(* size and fill the buffer independently.  The types hold too.            *)
ListedAreSubscribed ==
  /\ TypeOK
  /\ returned # Nothing =>
       LET ids == returned.ids IN
       /\ IsInjective(ids)
       /\ ToSet(ids) \subseteq Counted(returned.disabled)
       /\ returned.quiet => ToSet(ids) = Counted(returned.disabled)

(* A value that arrives as it was meant: a text without NUL bytes whole,   *)
(* an enumerator as itself, of a tag array its strings and nothing else.   *)
IsFaithful(asked, value) ==
  CASE asked.field = "tags" ->
         (\A n \in DOMAIN Strings(asked.value) : Len(Strings(asked.value)[n]) = 1) =>
            value = Strings(asked.value)
    [] asked.field = "visibility" ->
         asked.value \in VisibilityEnumerators => value = asked.value
    [] OTHER -> Len(asked.value) = 1 => value = asked.value

(* Each draft Steam holds was filled in with what the script set under the *)
(* integer that start_item_update returned for it, field by field and in   *)
(* order: the handle survives both casts, even above the largest PHP       *)
(* integer, and no edit lands on another draft or on a closed one.         *)
DraftsAreAsMeant ==
  \A h \in UpdateHandles :
    LET asked == meant[ToLong(h)] IN
    /\ Len(passed[h]) = Len(asked)
    /\ \A n \in DOMAIN asked :
         /\ passed[h][n].field = asked[n].field
         /\ IsFaithful(asked[n], passed[h][n].value)

=============================================================================
