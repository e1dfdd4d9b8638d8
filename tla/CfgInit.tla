------------------------------- MODULE CfgInit -------------------------------
(***************************************************************************)
(* CConfig::cfg_init of PlatformUtil/Config.cpp: which value of the loaded *)
(* tree ends up in which field.  A key has one value of its own, named     *)
(* like the key, so a field tells from which key its value was taken.      *)
(***************************************************************************)
EXTENDS Naturals, SequencesExt

CONSTANTS DBKeys, TopKeys, SystemKeys,   \* sequences: the keys, as read
          Required,                      \* those whose absence is an error
          NULL

Keys == ToSet(DBKeys) \cup ToSet(TopKeys) \cup ToSet(SystemKeys)

\* No key is read twice: each has a field of its own.
KeysOnce ==
    /\ \A keys \in {DBKeys, TopKeys, SystemKeys} :
          keys \in Seq(Keys) /\ IsInjective(keys)
    /\ ToSet(DBKeys) \cap ToSet(TopKeys) = {}
    /\ (ToSet(DBKeys) \cup ToSet(TopKeys)) \cap ToSet(SystemKeys) = {}
    /\ Required \subseteq Keys
    /\ NULL \notin Keys \cup {"success", "error", "crash"}

Sections == {"DBServer", "SYSTEM"}
Default  == "default"

VARIABLES
    file,      \* the keys that the tree has, with "value" or "none"
    sections,  \* the sections that it has
    doing,     \* the function that runs, or "done"
    at,        \* the key it reads next
    val,       \* its variable val: the key whose value it points to
    cfg,       \* the fields
    result     \* NULL before the end, "success" (0), "error" (-1), "crash"

vars == <<file, sections, doing, at, val, cfg, result>>

Init ==
    /\ sections \in SUBSET Sections
    /\ \E there \in SUBSET Keys :
          file \in [there -> {"value", "none"}]
    /\ ("DBServer" \notin sections => ToSet(DBKeys) \cap DOMAIN file = {})
    /\ ("SYSTEM" \notin sections => ToSet(SystemKeys) \cap DOMAIN file = {})
    /\ doing = "getDBConfig"
    /\ at = 1
    /\ val = NULL
    /\ cfg = [k \in Keys |-> Default]
    /\ result = NULL

Returns(r) ==
    /\ doing' = "done"
    /\ result' = r
    /\ UNCHANGED <<file, sections, at, val, cfg>>

\* What val points to after ConfGetChildValue: it is not written if the
\* key is missing.
ChildValue(key) ==
    IF key \notin DOMAIN file THEN val
    ELSE IF file[key] = "value" THEN key ELSE NULL

\* One key of a section.  A section that is missing is a NULL node, which
\* ConfNodeLookupChild dereferences.
ReadChild(function, section, keys) ==
    /\ doing = function
    /\ at <= Len(keys)
    /\ \/ /\ section \notin sections
          /\ Returns("crash")
       \/ /\ section \in sections
          /\ keys[at] \in Required /\ ChildValue(keys[at]) = NULL
          /\ Returns("error")
       \/ /\ section \in sections
          /\ keys[at] \in Required => ChildValue(keys[at]) # NULL
          /\ val' = ChildValue(keys[at])
          /\ cfg' = [cfg EXCEPT ![keys[at]] =
                       IF val' = NULL THEN @ ELSE val']
          /\ at' = at + 1
          /\ UNCHANGED <<file, sections, doing, result>>

\* One key of the top level: the value of the node is used as it is.
ReadTop ==
    /\ doing = "getSocketConfig"
    /\ at <= Len(TopKeys)
    /\ LET key == TopKeys[at]
       IN  \/ /\ key \in Required \ DOMAIN file
              /\ Returns("error")
           \/ /\ key \in DOMAIN file /\ file[key] = "none"
              /\ Returns("crash")
           \/ /\ key \notin Required \ DOMAIN file
              /\ key \in DOMAIN file => file[key] = "value"
              /\ cfg' = [cfg EXCEPT ![key] =
                           IF key \in DOMAIN file THEN key ELSE @]
              /\ at' = at + 1
              /\ UNCHANGED <<file, sections, doing, val, result>>

\* The next function begins, with its own val.
Calls(function, keys, next) ==
    /\ doing = function
    /\ at > Len(keys)
    /\ doing' = next
    /\ at' = 1
    /\ val' = NULL
    /\ UNCHANGED <<file, sections, cfg, result>>

Succeeds ==
    /\ doing = "getSystemConfig"
    /\ at > Len(SystemKeys)
    /\ Returns("success")

Next ==
    \/ ReadChild("getDBConfig", "DBServer", DBKeys)
    \/ Calls("getDBConfig", DBKeys, "getSocketConfig")
    \/ ReadTop
    \/ Calls("getSocketConfig", TopKeys, "getSystemConfig")
    \/ ReadChild("getSystemConfig", "SYSTEM", SystemKeys)
    \/ Succeeds

Spec == Init /\ [][Next]_vars

-----------------------------------------------------------------------------
(* Properties *)

Has(key) == key \in DOMAIN file /\ file[key] = "value"

\* When cfg_init succeeds, every key that the file has is in its own field; what
\* is missing at the top level has its default, and what is missing in a section
\* has taken no value of another section, whose val was another one.  It fails
\* only for a required key without a value, and crashes only for a section that
\* is missing or a key of the top level without a value.
FieldsRead ==
    /\ result = "success" =>
        /\ \A k \in Keys : Has(k) => cfg[k] = k
        /\ \A k \in ToSet(TopKeys) : ~Has(k) => cfg[k] = Default
        /\ \A keys \in {DBKeys, SystemKeys} : \A k \in ToSet(keys) :
              cfg[k] \in {Default} \cup ToSet(keys)
    /\ result = "error" => \E k \in Required : ~Has(k)
    /\ result = "crash" =>
        sections # Sections \/ \E k \in ToSet(TopKeys) : k \in DOMAIN file /\ ~Has(k)

\* What the messages of getDBConfig and getSystemConfig say, "DBUser is error"
\* where DBUser is missing: cfg_init succeeds only if the file has every
\* required key.
MissingKeyIsError == result = "success" => \A k \in Required : Has(k)
=============================================================================
