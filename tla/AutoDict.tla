------------------------------ MODULE AutoDict ------------------------------
(***************************************************************************)
(* The dictionary over sessions: found in fuzz_one, saved now and then     *)
(* under queue/.state/auto_extras, loaded by the next session.  A session  *)
(* may be killed between any two steps.                                    *)
(***************************************************************************)
EXTENDS Extras

CONSTANTS
  DictTokens,      \* the tokens fuzz_one may come up with
  UserDicts,       \* what -x may give
  MaxDictHits,     \* bound: hits of a token and
  MaxDictSessions, \* sessions
  NoDir            \* there is no _resume directory

ASSUME AutoDictAssumption ==
  /\ MaxDictSessions \in Nat /\ MaxDictHits \in Nat
  /\ NoDir \notin Seq(DictTokens \cup {<<>>})

VARIABLES
  dphase,          \* "off", "load", "user", "dry", "save", "fuzz"
  dfiles,          \* auto_000000, auto_000001, ... in the new queue directory
  dold,            \* the same in the directory resumed from, or NoDir
  dnext,           \* the file that load_auto or save_auto is at
  dsessions

sessionVars == <<dphase, dfiles, dold, dnext, dsessions>>
autoDictVars == <<dictVars, sessionVars>>

DictInit ==
  /\ extras = <<>> /\ a_extras = <<>> /\ auto_changed = FALSE
  /\ dphase = "off" /\ dfiles = <<>> /\ dold = NoDir /\ dnext = 1 /\ dsessions = 0

\* The queue directory becomes _resume, unless an earlier session has left one.
StartSession ==
  /\ dphase = "off" /\ dsessions < MaxDictSessions
  /\ dsessions' = dsessions + 1
  /\ dold' = IF dold = NoDir THEN dfiles ELSE dold
  /\ dfiles' = <<>>
  /\ extras' = <<>> /\ a_extras' = <<>> /\ auto_changed' = FALSE
  /\ dphase' = "load" /\ dnext' = 1

\* load_auto: at most USE_AUTO_EXTRAS files, up to the first that is missing.
LoadAuto ==
  /\ dphase = "load" /\ dnext <= Least(UseAuto, Len(dold))
  /\ IF Len(dold[dnext]) \in MinAuto .. MaxAuto THEN MaybeAddAuto(dold[dnext])
     ELSE UNCHANGED dictVars
  /\ dnext' = dnext + 1
  /\ UNCHANGED <<dphase, dfiles, dold, dsessions>>

\* pivot_inputs is done with _resume and deletes it.
Pivoted ==
  /\ dphase = "load" /\ dnext > Least(UseAuto, Len(dold))
  /\ dold' = NoDir
  /\ dphase' = "user"
  /\ UNCHANGED <<dictVars, dfiles, dnext, dsessions>>

WithoutDict ==
  /\ dphase = "user" /\ dphase' = "dry"
  /\ UNCHANGED <<dictVars, dfiles, dold, dnext, dsessions>>

WithDict ==
  /\ dphase = "user"
  /\ \E d \in UserDicts :
       IF LoadFails(d.lines, d.level)
       THEN dphase' = "off" /\ UNCHANGED dictVars
       ELSE dphase' = "dry" /\ LoadExtras(d.lines, d.level)
  /\ UNCHANGED <<dfiles, dold, dnext, dsessions>>

\* save_auto, after the dry run, from show_stats and at the end of the session.
BeginSave ==
  /\ dphase \in {"dry", "fuzz"}
  /\ IF auto_changed THEN dphase' = "save" ELSE dphase' = "fuzz"
  /\ auto_changed' = FALSE
  /\ dnext' = 1
  /\ UNCHANGED <<extras, a_extras, dfiles, dold, dsessions>>

WrittenTo(files, i, t) == IF i <= Len(files) THEN [files EXCEPT ![i] = t] ELSE Append(files, t)

SaveFile ==
  /\ dphase = "save" /\ dnext \in Used
  /\ dfiles' = WrittenTo(dfiles, dnext, a_extras[dnext].data)
  /\ dnext' = dnext + 1
  /\ UNCHANGED <<dictVars, dphase, dold, dsessions>>

EndSave ==
  /\ dphase = "save" /\ dnext \notin Used
  /\ dphase' = "fuzz"
  /\ UNCHANGED <<dictVars, dfiles, dold, dnext, dsessions>>

FindToken(t) ==
  /\ dphase = "fuzz"
  /\ \A i \in DOMAIN a_extras : SameNoCase(a_extras[i].data, t) => a_extras[i].hit_cnt < MaxDictHits
  /\ MaybeAddAuto(t)
  /\ UNCHANGED sessionVars

\* A kill may find the file that is being written truncated.
KillSession ==
  /\ dphase # "off"
  /\ dphase' = "off"
  /\ \/ UNCHANGED dfiles
     \/ dphase = "save" /\ dnext \in Used /\ dfiles' = WrittenTo(dfiles, dnext, <<>>)
  /\ extras' = <<>> /\ a_extras' = <<>> /\ auto_changed' = FALSE /\ dnext' = 1
  /\ UNCHANGED <<dold, dsessions>>

DictNext ==
  \/ StartSession \/ LoadAuto \/ Pivoted \/ WithoutDict \/ WithDict
  \/ BeginSave \/ SaveFile \/ EndSave \/ KillSession
  \/ \E t \in DictTokens : FindToken(t)

DictSpec == DictInit /\ [][DictNext]_autoDictVars

-----------------------------------------------------------------------------
DictTypeOK ==
  /\ dphase \in {"off", "load", "user", "dry", "save", "fuzz"}
  /\ Len(a_extras) <= MaxAutoExtras
  /\ \A i \in DOMAIN a_extras : a_extras[i].hit_cnt \in Nat
  /\ Len(dfiles) <= UseAuto

\* Only a token of the lower half gives way, and it has been used no more than any token
\* of the upper half.
LeastUsedGivesWay ==
  [][\A i \in DOMAIN a_extras :
       \/ dphase' # dphase
       \/ \E j \in DOMAIN a_extras' : a_extras'[j].data = a_extras[i].data
       \/ \A j \in 1 .. MaxAutoExtras \div 2 :
            i # j /\ a_extras[i].hit_cnt <= a_extras[j].hit_cnt]_autoDictVars

\* As long as nothing has changed since the last save the files are the used tokens.
FilesAreUsed ==
  dphase = "fuzz" /\ ~auto_changed =>
    dfiles = [i \in Used |-> a_extras[i].data]

\* The tokens a session that is started now could load.
OnDisk == LET d == IF dold = NoDir THEN dfiles ELSE dold IN {d[i] : i \in DOMAIN d} \ {<<>>}

\* What is on disk stays there through kills and restarts, but for two windows: from the
\* deletion of _resume to the first save, and while save_auto is at work.
TokensSurvive ==
  [][\/ dphase \in {"user", "dry", "save"} \/ dphase' = "user"
     \/ OnDisk \subseteq OnDisk']_autoDictVars
=============================================================================
