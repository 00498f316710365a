----------------------------- MODULE SteamStats -----------------------------
(***************************************************************************)
(* Statistics and achievements of the local user (the first half of        *)
(* src/modules/steam_stats.c).  Steam loads them with the session, the     *)
(* script reads and changes the loaded copy, and only what is stored       *)
(* outlives the session or a crash.                                        *)
(*                                                                         *)
(* A C int32 is cut to a small width; a double has one binary digit more   *)
(* than a float has.                                                       *)
(***************************************************************************)
EXTENDS SteamInterfaces, SequencesExt

CONSTANTS
  IntStats, FloatStats,  (* The statistics the game defines, by type.       *)
  Achievements,          (* Its achievements, in the order Steam has them.  *)
  Numbers,               (* The integers a script passes, all of 64 bits.   *)
  StatMax,               (* Largest int32.                                  *)
  MaxUnlocks             (* Bound: how often achievements are unlocked.     *)

(* Assumed of the constants.                                               *)
StatsAssumption ==
  /\ StatMax \in Nat /\ MaxUnlocks \in Nat
  /\ Numbers \subseteq Int
  /\ IntStats \cap FloatStats = {}
  /\ Achievements \in Seq(STRING) /\ IsInjective(Achievements)
  /\ Len(Achievements) \in 0..(2 * StatMax + 1)

VARIABLES
  loaded,      (* Steam: the copy of the running session.                   *)
  saved,       (* Steam: what is stored in the user's account.              *)
  now,         (* Steam's clock: unlocks so far.                            *)
  meant,       (* History: what the script set and was told TRUE for.       *)
  promised     (* History: the same at the last store that returned TRUE.   *)

statsVars == <<loaded, saved, now, meant, promised>>
vars == <<ifaceVars, statsVars>>

StatNames == IntStats \cup FloatStats
AchievementNames == ToSet(Achievements)
UserStats == "ISteamUserStats"

(* An achievement is locked, or unlocked at a time; Steam may keep the     *)
(* time of one that was cleared.                                           *)
Fresh ==
  [ stats |-> [s \in StatNames |-> 0],
    achieved |-> [a \in AchievementNames |-> FALSE],
    time |-> [a \in AchievementNames |-> 0] ]

ToUint(n) == n % (2 * StatMax + 2)

ToStatInt(n) == IF ToUint(n) > StatMax THEN ToUint(n) - (2 * StatMax + 2) ELSE ToUint(n)

(* The nearest value a float can hold.                                     *)
ToFloat(n) == 2 * (n \div 2)

Stored(stat, value) == IF stat \in IntStats THEN ToStatInt(value) ELSE ToFloat(value)

-----------------------------------------------------------------------------
(* The readers.  Each returns a set: empty for FALSE or null.              *)

(* Steam knows a statistic by its name and type.                           *)
steam_stats_get_int(stat) ==
  IF Found(UserStats) /\ stat \in IntStats THEN {loaded.stats[stat]} ELSE {}

steam_stats_get_float(stat) ==
  IF Found(UserStats) /\ stat \in FloatStats THEN {loaded.stats[stat]} ELSE {}

steam_stats_get_achievement(name) ==
  IF Found(UserStats) /\ name \in AchievementNames THEN {loaded.achieved[name]} ELSE {}

steam_stats_get_achievement_unlock_time(name) ==
  IF Found(UserStats) /\ name \in AchievementNames /\ loaded.achieved[name]
    THEN {loaded.time[name]} ELSE {}

steam_stats_get_num_achievements ==
  IF Found(UserStats) THEN Len(Achievements) ELSE 0

(* An index outside the list gets an empty name, which is FALSE.           *)
steam_stats_get_achievement_name(index) ==
  IF Found(UserStats) /\ ToUint(index) < Len(Achievements)
    THEN {Achievements[ToUint(index) + 1]} ELSE {}

(* What a script sees that goes through the list by index.                 *)
Overview ==
  { <<name, steam_stats_get_achievement(name),
      steam_stats_get_achievement_unlock_time(name)>> :
    name \in UNION {steam_stats_get_achievement_name(i) :
                      i \in 0..(steam_stats_get_num_achievements - 1)} }

-----------------------------------------------------------------------------
(* The functions.  Steam refuses unknown names and wrong types, and may    *)
(* refuse to store when it is asked too often.                             *)

StatsCall == steamworks_resolve(UserStats)

(* Readers, display attributes and the progress notification change only   *)
(* what the accessor may change.                                           *)
steam_stats_read ==
  StatsCall /\ UNCHANGED statsVars

SetStat(stat, value) ==
  IF Found(UserStats)
    THEN /\ loaded' = [loaded EXCEPT !.stats[stat] = Stored(stat, value)]
         /\ meant' = [meant EXCEPT !.stats[stat] = value]
    ELSE UNCHANGED <<loaded, meant>>

steam_stats_set_int(stat, value) ==
  /\ StatsCall /\ stat \in IntStats
  /\ SetStat(stat, value)
  /\ UNCHANGED <<saved, now, promised>>

steam_stats_set_float(stat, value) ==
  /\ StatsCall /\ stat \in FloatStats
  /\ SetStat(stat, value)
  /\ UNCHANGED <<saved, now, promised>>

steam_stats_set_achievement(name) ==
  /\ StatsCall
  /\ IF Found(UserStats) /\ ~loaded.achieved[name]
       THEN /\ now < MaxUnlocks /\ now' = now + 1
            /\ loaded' = [loaded EXCEPT !.achieved[name] = TRUE, !.time[name] = now + 1]
            /\ meant' = [meant EXCEPT !.achieved[name] = TRUE, !.time[name] = now + 1]
       ELSE UNCHANGED <<now, loaded, meant>>
  /\ UNCHANGED <<saved, promised>>

steam_stats_clear_achievement(name) ==
  /\ StatsCall
  /\ IF Found(UserStats)
       THEN /\ loaded' = [loaded EXCEPT !.achieved[name] = FALSE]
            /\ meant' = [meant EXCEPT !.achieved[name] = FALSE]
       ELSE UNCHANGED <<loaded, meant>>
  /\ UNCHANGED <<saved, now, promised>>

steam_stats_store ==
  /\ StatsCall
  /\ \/ /\ Found(UserStats)
        /\ saved' = loaded /\ promised' = meant
     \/ UNCHANGED <<saved, promised>>
  /\ UNCHANGED <<loaded, now, meant>>

(* A slip: the default of the optional argument the other way round.       *)
achievements_too_Default(args) == IF args = <<>> THEN TRUE ELSE args[1]

achievements_too(args) == IF args = <<>> THEN FALSE ELSE args[1]

ResetCopy(copy, too) ==
  [ copy EXCEPT !.stats = Fresh.stats,
                !.achieved = IF too THEN Fresh.achieved ELSE @ ]

(* Steam stores the reset at once.                                         *)
steam_stats_reset_all_stats(args) ==
  /\ StatsCall
  /\ IF Found(UserStats)
       THEN /\ loaded' = ResetCopy(loaded, achievements_too(args))
            /\ saved' = loaded'
            /\ meant' = ResetCopy(meant, args = <<TRUE>>)
            /\ promised' = meant'
       ELSE UNCHANGED <<loaded, saved, meant, promised>>
  /\ UNCHANGED now

-----------------------------------------------------------------------------
(* The session; also ended by a crash.                                     *)

steam_init(client) ==
  /\ SteamAPI_InitFlat(client)
  /\ UNCHANGED statsVars

SessionEnds ==
  /\ SteamAPI_Shutdown
  /\ loaded' = saved /\ meant' = promised
  /\ UNCHANGED <<saved, now, promised>>

StatsInit ==
  /\ loaded = Fresh /\ saved = Fresh /\ meant = Fresh /\ promised = Fresh
  /\ now = 0

Init == IfaceInit /\ StatsInit

Next ==
  \/ \E client \in Clients : steam_init(client)
  \/ SessionEnds
  \/ steam_stats_read
  \/ \E stat \in StatNames, value \in Numbers :
       \/ steam_stats_set_int(stat, value)
       \/ steam_stats_set_float(stat, value)
  \/ \E name \in AchievementNames :
       \/ steam_stats_set_achievement(name)
       \/ steam_stats_clear_achievement(name)
  \/ steam_stats_store
  \/ \E args \in {<<>>, <<FALSE>>, <<TRUE>>} : steam_stats_reset_all_stats(args)

Spec == Init /\ [][Next]_vars

-----------------------------------------------------------------------------
StatsTypeOK ==
  /\ IfaceTypeOK
  /\ \A copy \in {loaded, saved} :
       /\ \A s \in IntStats : copy.stats[s] \in (-StatMax - 1)..StatMax
       /\ copy.achieved \in [AchievementNames -> BOOLEAN]
       /\ copy.time \in [AchievementNames -> 0..MaxUnlocks]
  /\ now \in 0..MaxUnlocks

(* What a copy of the statistics shows is what was meant, up to what the   *)
(* C types can hold.                                                       *)
Represents(copy, intent) ==
  /\ \A s \in StatNames : copy.stats[s] = Stored(s, intent.stats[s])
  /\ \A s \in IntStats :
       intent.stats[s] \in (-StatMax - 1)..StatMax => copy.stats[s] = intent.stats[s]
  /\ copy.achieved = intent.achieved

(* In any session, whatever was set, cleared, reset or stored before, a    *)
(* script that goes through the achievements by index sees each of them    *)
(* with the state it last gave it, and a time exactly for the unlocked     *)
(* ones, the time they were unlocked; statistics read as they were set.    *)
StatsAsSet ==
  Found(UserStats) =>
    /\ Overview =
         { <<name, {meant.achieved[name]},
             IF meant.achieved[name] THEN {meant.time[name]} ELSE {}>> :
           name \in AchievementNames }
    /\ \A s \in IntStats : steam_stats_get_int(s) = {Stored(s, meant.stats[s])}
    /\ \A s \in FloatStats : steam_stats_get_float(s) = {ToFloat(meant.stats[s])}

(* What steam_stats_store() returned TRUE for survives the end of the      *)
(* session and a crash, and nothing else is kept or lost: a reset spares   *)
(* the achievements unless they were asked for.                            *)
StoredStatsSurvive == Represents(saved, promised)

=============================================================================
