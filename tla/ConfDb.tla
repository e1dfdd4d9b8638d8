------------------------------- MODULE ConfDb -------------------------------
(***************************************************************************)
(* What config/conf.c promises: a database of named parameters.  A name is *)
(* a path; a path that is set has a value, or none if it was only needed   *)
(* on the way to a longer one, and it says whether it may be set again.    *)
(***************************************************************************)
EXTENDS SequencesExt

CONSTANTS Paths, Values, NULL

VARIABLES
    db,       \* NULL, or the parameters by path
    saved,    \* the backup: NULL, or a database
    last      \* the last call and its answer

vars == <<db, saved, last>>

OnTheWay == [val |-> NULL, allow_override |-> TRUE]

Init == db = NULL /\ saved = NULL /\ last = NULL

Begin ==
    /\ db = NULL
    /\ db' = [p \in {} |-> OnTheWay]
    /\ last' = <<"init">>
    /\ UNCHANGED saved

Set(path, v, allow) ==
    /\ db # NULL
    /\ LET final == path \in DOMAIN db /\ ~db[path].allow_override
           new   == {p \in Paths : IsPrefix(p, path)} \ DOMAIN db
       IN  /\ last' = <<"set", path, v, allow, IF final THEN 0 ELSE 1>>
           /\ db' = IF final THEN db ELSE
                    [p \in DOMAIN db \cup new |->
                       IF p = path THEN [val |-> v, allow_override |-> allow]
                       ELSE IF p \in new THEN OnTheWay ELSE db[p]]
    /\ UNCHANGED saved

Get(path) ==
    /\ db # NULL
    /\ last' = IF path \in DOMAIN db THEN <<"get", path, 1, db[path].val>>
               ELSE <<"get", path, 0, NULL>>
    /\ UNCHANGED <<db, saved>>

\* What lies below a parameter goes with it.
Drop(path) ==
    /\ db # NULL
    /\ db' = [p \in {q \in DOMAIN db : ~IsPrefix(path, q)} |-> db[p]]
    /\ last' = <<"remove", path, IF path \in DOMAIN db THEN 1 ELSE 0>>
    /\ UNCHANGED saved

Backup ==
    /\ saved' = db
    /\ db' = NULL
    /\ last' = <<"backup">>

Restore ==
    /\ db' = saved
    /\ saved' = NULL
    /\ last' = <<"restore">>

End ==
    /\ db # NULL
    /\ db' = NULL
    /\ last' = <<"deinit">>
    /\ UNCHANGED saved

Next ==
    \/ Begin \/ Backup \/ Restore \/ End
    \/ \E p \in Paths : Get(p) \/ Drop(p)
    \/ \E p \in Paths, v \in Values, a \in BOOLEAN : Set(p, v, a)

Spec == Init /\ [][Next]_vars
=============================================================================
