---------------------------- MODULE SteamContent ----------------------------
(***************************************************************************)
(* What a script stores with Steam and lists: remote storage (SteamRemote, *)
(* which this module extends) and the workshop (SteamWorkshop, whose       *)
(* definitions have many of the same names and which is an instance).      *)
(*                                                                         *)
(* Both resolve interfaces and live in the same session, but no function   *)
(* of one touches what the other keeps; so each is explored on its own, in *)
(* one of the behaviours ContentInit chooses among.                        *)
(***************************************************************************)
EXTENDS SteamRemote

CONSTANTS Items, UpdateHandles, INT64_MAX, ENUM_MAX, Texts, Visibilities, TagArrays,
          NoString, MaxEdits, MaxChanges

VARIABLES
  scene,       (* Whose functions are called: "storage" or "workshop".      *)
  subscribed, changes, jobs, drafts, passed, meant,
  listing,     (* The workshop's function in progress ...                   *)
  listed       (* ... and what it returned.                                 *)

Workshop ==
  INSTANCE SteamWorkshop WITH
    INT32_MAX <- ENUM_MAX, call <- listing, returned <- listed

ASSUME ContentAssumption == Workshop!WorkshopAssumption

workshopVars ==
  <<subscribed, changes, jobs, listing, listed, drafts, passed, meant>>
contentVars == <<scene, vars, workshopVars>>

ContentInit == scene \in {"storage", "workshop"} /\ Init /\ Workshop!Init

StorageStep == scene = "storage" /\ Next /\ UNCHANGED <<scene, workshopVars>>

WorkshopStep ==
  /\ scene = "workshop" /\ Workshop!Next
  /\ UNCHANGED <<scene, cloudVars, sharedVars, returned>>

ContentNext == StorageStep \/ WorkshopStep

ContentSpec == ContentInit /\ [][ContentNext]_contentVars

-----------------------------------------------------------------------------
(* The properties of the workshop, as SteamWorkshop states and explains    *)
(* them.                                                                   *)

(* The list of subscribed items names each item at most once, only what is *)
(* subscribed, and all of it unless a subscription changed meanwhile       *)
(* (steam_ugc_get_subscribed_items).                                       *)
ListedAreSubscribed == Workshop!ListedAreSubscribed

(* Every draft Steam holds was filled in with what the script set under    *)
(* the integer it got for it (steam_ugc_start_item_update and the setters).*)
DraftsAreAsMeant == Workshop!DraftsAreAsMeant

=============================================================================
