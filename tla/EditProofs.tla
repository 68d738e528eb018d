------------------------------ MODULE EditProofs ------------------------------
(***************************************************************************)
(* The two editors.  The settings files, for any processes, fields and     *)
(* providers, any number of commands, requests and edits by hand, and any  *)
(* consistent files to begin with.  The task list of a run, for any titles,*)
(* any plan whose tasks have ids of their own and name tasks of the plan,  *)
(* and any number of tasks and of edits.                                   *)
(***************************************************************************)
EXTENDS Settings, WorkflowEdit, FiniteSetTheorems, SequenceTheorems, TLAPS


-----------------------------------------------------------------------------
(* Operations *)

\* What an operation names is made of fields and sections; a request has the
\* fields of one section.
LEMMA OpType ==
  ASSUME NEW o \in Op
  PROVE  /\ o.kind \in {"set", "provider", "remove", "key", "put"}
         /\ o.kind = "set" => o.field \in Setting
         /\ o.kind \in {"provider", "remove"} => o.field \in Provider
         /\ o.kind # "put" => o.field \in Field
         /\ o.kind = "remove" => o.to = FALSE
         /\ o.kind = "put" => /\ o.section \in Section
                              /\ o.sent \subseteq InSection(o.section)
                              /\ o.fields \subseteq o.sent
<1>1. CASE o \in Orders
  BY <1>1, SettingsAssumption DEF Orders, Field
<1>2. CASE o \in [kind : {"key"}, field : Field, to : BOOLEAN]
  BY <1>2
<1>3. CASE o \in UNION {Bodies(s) : s \in Section}
  <2>1. PICK s \in Section : o \in Bodies(s)
    BY <1>3
  <2>2. PICK S \in SUBSET InSection(s) :
          o \in [kind : {"put"}, section : {s}, sent : {S}, fields : SUBSET S]
    BY <2>1 DEF Bodies
  <2> QED
    BY <2>1, <2>2
<1> QED
  BY <1>1, <1>2, <1>3 DEF Op, Requests

\* A section of a body is made of fields.
LEMMA InSectionType == \A s \in Section : InSection(s) \subseteq Field
  BY DEF InSection

\* What a writer makes of its copy is made of fields and sections.
LEMMA WrittenType ==
  ASSUME TypeOK, NEW p \in Process, op[p] \in Op
  PROVE  /\ Written(p) \in SUBSET Field
         /\ WrittenBad(p) \subseteq SUBSET Section
<1>1. copy[p] \subseteq Field /\ copyBad[p] \subseteq Section
  BY DEF TypeOK
<1>2. CASE op[p].kind = "put"
  BY <1>1, <1>2, OpType, InSectionType DEF Written, WrittenBad
<1>3. CASE op[p].kind # "put"
  <2>1. op[p].field \in Field
    BY <1>3, OpType
  <2>2. SectionOf[op[p].field] \in Section
    BY <2>1, SettingsAssumption
  <2>3. Written(p) \subseteq copy[p] \cup Choice \cup {op[p].field}
    BY <1>3 DEF Written, NewEntry, Chosen, Put
  <2>4. Choice \subseteq Field
    BY SettingsAssumption DEF Field
  <2> QED
    BY <1>1, <1>3, <2>1, <2>2, <2>3, <2>4 DEF WrittenBad
<1> QED
  BY <1>2, <1>3

-----------------------------------------------------------------------------
(* Type correctness *)

\* A command under way has an operation.
Working == \A p \in Process : pc[p] # "idle" => op[p] \in Op

\* A step keeps the types.
LEMMA TypingStep == TypeOK /\ Working /\ [Next]_vars => TypeOK' /\ Working'
<1> SUFFICES ASSUME TypeOK, Working, [Next]_vars PROVE TypeOK' /\ Working'
  OBVIOUS
<1>1. ASSUME NEW p \in Process, NEW o \in Op, Begin(p, o),
             copy' \in [Process -> SUBSET Field],
             copyBad' \in [Process -> SUBSET Section], loose' \in BOOLEAN
      PROVE  TypeOK' /\ Working'
  BY <1>1, SettingsAssumption DEF TypeOK, Working, Begin, Goto, secrets
<1>2. ASSUME NEW p \in Process, Command(p) PROVE TypeOK' /\ Working'
  <2>1. PICK o \in Orders :
          /\ Begin(p, o)
          /\ copy' = [copy EXCEPT ![p] = Parsed]
          /\ copyBad' = [copyBad EXCEPT ![p] = {}]
          /\ loose' = (loose \/ Overlaps(p) \/ (o.kind = "remove" /\ bad # {}))
    BY <1>2 DEF Command
  <2>2. o \in Op
    BY DEF Op
  <2>3. loose' \in BOOLEAN
    BY <2>1
  <2>4. /\ copy' \in [Process -> SUBSET Field]
        /\ copyBad' \in [Process -> SUBSET Section]
    BY <2>1 DEF Parsed, TypeOK
  <2> QED
    BY <1>1, <2>1, <2>2, <2>3, <2>4
<1>3. ASSUME NEW p \in Process, Request(p) PROVE TypeOK' /\ Working'
  <2>1. PICK o \in Requests :
          /\ Begin(p, o)
          /\ copy' = [copy EXCEPT ![p] = on]
          /\ copyBad' = [copyBad EXCEPT ![p] = bad]
          /\ loose' = (loose \/ Overlaps(p)
                        \/ (IF o.kind = "put" THEN o.fields ELSE {o.field})
                             \cap Provider # {})
    BY <1>3 DEF Request
  <2>2. o \in Op
    BY DEF Op
  <2>3. loose' \in BOOLEAN
    BY <2>1
  <2>4. /\ copy' \in [Process -> SUBSET Field]
        /\ copyBad' \in [Process -> SUBSET Section]
    BY <2>1 DEF TypeOK
  <2> QED
    BY <1>1, <2>1, <2>2, <2>3, <2>4
<1>4. ASSUME NEW p \in Process, ReadKeys(p) PROVE TypeOK' /\ Working'
  <2>1. loose' \in BOOLEAN
    BY <1>4, Zenon DEF TypeOK, ReadKeys
  <2> QED
    BY <1>4, <2>1 DEF TypeOK, Working, ReadKeys, config, memory, bounds
<1>5. ASSUME NEW p \in Process, SetKey(p) PROVE TypeOK' /\ Working'
  <2>1. op[p] \in Op /\ op[p].kind = "provider"
    BY <1>5 DEF Working, SetKey, Stores
  <2>2. op[p].field \in Provider
    BY <2>1, OpType
  <2> QED
    BY <1>5, <2>2 DEF TypeOK, Working, SetKey, WriteKeys, Goto, config, memory,
                      bounds
<1>6. ASSUME NEW p \in Process, RemoveKey(p) PROVE TypeOK' /\ Working'
  BY <1>6 DEF TypeOK, Working, RemoveKey, WriteKeys, Goto, config, memory, bounds
<1>7. ASSUME NEW p \in Process, SaveConfig(p) PROVE TypeOK' /\ Working'
  <2>1. op[p] \in Op
    BY <1>7 DEF Working, SaveConfig
  <2>2. PICK ss \in WrittenBad(p) : WriteConfig(Written(p), ss, {p})
    BY <1>7 DEF SaveConfig
  <2>3. on' \in SUBSET Field /\ bad' \in SUBSET Section
    BY <2>1, <2>2, WrittenType DEF WriteConfig
  <2>4. /\ pc' \in [Process -> {"idle", "loaded", "keyed", "saved", "read"}]
        /\ op' \in [Process -> Op \cup {None}]
        /\ copy' \in [Process -> SUBSET Field]
        /\ copyBad' \in [Process -> SUBSET Section]
        /\ Working'
    BY <1>7, <2>1 DEF TypeOK, Working, SaveConfig, Saved, Forget, Goto, memory
  <2> QED
    BY <1>7, <2>2, <2>3, <2>4
       DEF TypeOK, SaveConfig, WriteConfig, secrets, bounds
<1>8. ASSUME NEW p \in Process, SkipConfig(p) PROVE TypeOK' /\ Working'
  BY <1>8 DEF TypeOK, Working, SkipConfig, Goto, config, secrets, memory, bounds
<1>9. ASSUME NEW p \in Process, NextProvider(p) PROVE TypeOK' /\ Working'
  BY <1>9 DEF TypeOK, Working, NextProvider, Forget, Goto, config, secrets,
              memory, bounds
<1>10. ASSUME NEW p \in Process, End(p) PROVE TypeOK' /\ Working'
  BY <1>10 DEF TypeOK, Working, End, Forget, Goto, config, secrets, memory, bounds
<1>11. CASE Edit
  <2>1. on' \subseteq Field /\ bad' \subseteq Section /\ stale' \subseteq Process
    BY <1>11 DEF TypeOK, Edit, WriteConfig, Put
  <2>2. broken' \in BOOLEAN
    BY <1>11, Zenon DEF TypeOK, Edit, WriteConfig
  <2>3. loose' \in BOOLEAN
    BY <1>11, Zenon DEF TypeOK, Edit
  <2>4. edits' \in 0 .. MaxEdits
    BY <1>11, SettingsAssumption DEF TypeOK, Edit
  <2> QED
    BY <1>11, <2>1, <2>2, <2>3, <2>4 DEF TypeOK, Working, Edit, secrets, memory
<1>12. CASE RemoveElsewhere
  BY <1>12, SettingsAssumption DEF TypeOK, Working, RemoveElsewhere, config, memory
<1>13. CASE UNCHANGED vars
  BY <1>13 DEF TypeOK, Working, vars, config, secrets, memory, bounds
<1> QED
  BY <1>2, <1>3, <1>4, <1>5, <1>6, <1>7, <1>8, <1>9, <1>10, <1>11, <1>12, <1>13
     DEF Next

\* Init has the types.
LEMMA TypingInit == Init => TypeOK /\ Working
<1> SUFFICES ASSUME Init PROVE TypeOK /\ Working
  OBVIOUS
<1>1. ops \in 0 .. MaxOps /\ edits \in 0 .. MaxEdits
  BY SettingsAssumption DEF Init
<1>2. broken \in BOOLEAN /\ loose \in BOOLEAN
  BY Zenon DEF Init
<1> QED
  BY <1>1, <1>2 DEF Init, TypeOK, Working

\* The variables have their types (config.json, secrets.json and what each
\* process has read of them).
THEOREM TypeCorrect == Spec => []TypeOK
  BY TypingInit, TypingStep, PTL DEF Spec

-----------------------------------------------------------------------------
(* Copies and caches *)

\* What a process has read is what the file has, unless someone wrote it since.
Fresh ==
  \A p \in Process :
    /\ p \in held /\ p \notin missed => cache[p] = keys
    /\ pc[p] \in {"loaded", "keyed"} /\ p \notin stale =>
         copy[p] = IF ByLoader(p) THEN Parsed ELSE on

\* A step leaves old copies and caches only to processes it notes.
LEMMA FreshStep == TypeOK /\ Working /\ Fresh /\ [Next]_vars => Fresh'
<1> SUFFICES ASSUME TypeOK, Working, Fresh, [Next]_vars PROVE Fresh'
  OBVIOUS
<1>1. ASSUME NEW p \in Process, Command(p) PROVE Fresh'
  <2>1. PICK o \in Orders : /\ Begin(p, o)
                            /\ copy' = [copy EXCEPT ![p] = Parsed]
    BY <1>1 DEF Command
  <2>2. op'[p] = o /\ o.kind \in {"set", "provider", "remove"}
    BY <2>1 DEF TypeOK, Begin, Orders
  <2>3. UNCHANGED <<on, bad, keys, missed, cache, held>> /\ Parsed' = Parsed
    BY <2>1 DEF Begin, secrets, Parsed
  <2>4. ASSUME NEW q \in Process, q # p
        PROVE  /\ pc'[q] = pc[q] /\ op'[q] = op[q] /\ copy'[q] = copy[q]
               /\ q \in stale' <=> q \in stale
    BY <2>1, <2>4 DEF TypeOK, Begin, Goto
  <2>5. copy'[p] = Parsed
    BY <2>1 DEF TypeOK
  <2> QED
    BY <2>2, <2>3, <2>4, <2>5 DEF Fresh, ByLoader
<1>2. ASSUME NEW p \in Process, Request(p) PROVE Fresh'
  <2>1. PICK o \in Requests : /\ Begin(p, o)
                              /\ copy' = [copy EXCEPT ![p] = on]
    BY <1>2 DEF Request
  <2>2. o.kind \in {"key", "put"}
    BY DEF Requests, Bodies
  <2>3. op'[p] = o
    BY <2>1 DEF TypeOK, Begin
  <2>4. UNCHANGED <<on, bad, keys, missed, cache, held>> /\ Parsed' = Parsed
    BY <2>1 DEF Begin, secrets, Parsed
  <2>5. ASSUME NEW q \in Process, q # p
        PROVE  /\ pc'[q] = pc[q] /\ op'[q] = op[q] /\ copy'[q] = copy[q]
               /\ q \in stale' <=> q \in stale
    BY <2>1, <2>5 DEF TypeOK, Begin, Goto
  <2>6. copy'[p] = on
    BY <2>1 DEF TypeOK
  <2> QED
    BY <2>2, <2>3, <2>4, <2>5, <2>6 DEF Fresh, ByLoader
<1>3. ASSUME NEW p \in Process, ReadKeys(p) PROVE Fresh'
  BY <1>3 DEF TypeOK, Fresh, ReadKeys, ByLoader, Parsed, config, memory
<1>4. ASSUME NEW p \in Process, SetKey(p) PROVE Fresh'
  BY <1>4 DEF TypeOK, Fresh, SetKey, WriteKeys, Goto, ByLoader, Parsed, config,
              memory
<1>5. ASSUME NEW p \in Process, RemoveKey(p) PROVE Fresh'
  BY <1>5 DEF TypeOK, Fresh, RemoveKey, WriteKeys, Goto, ByLoader, Parsed,
              config, memory
<1>6. ASSUME NEW p \in Process, SaveConfig(p) PROVE Fresh'
  <2>1. /\ stale' = stale \cup (Process \ {p}) /\ pc'[p] \in {"idle", "saved"}
        /\ UNCHANGED <<keys, missed, cache, held>>
    BY <1>6 DEF TypeOK, SaveConfig, WriteConfig, Saved, Goto, secrets
  <2> QED
    BY <2>1 DEF TypeOK, Fresh
<1>7. ASSUME NEW p \in Process, SkipConfig(p) PROVE Fresh'
  BY <1>7 DEF TypeOK, Fresh, SkipConfig, Goto, ByLoader, Parsed, config, secrets,
              memory
<1>8. ASSUME NEW p \in Process, NextProvider(p) PROVE Fresh'
  BY <1>8 DEF TypeOK, Fresh, NextProvider, Forget, Goto, ByLoader, Parsed,
              config, secrets
<1>9. ASSUME NEW p \in Process, End(p) PROVE Fresh'
  BY <1>9 DEF TypeOK, Fresh, End, Forget, Goto, ByLoader, Parsed, config, secrets
<1>10. CASE Edit
  <2>1. stale' = Process
    BY <1>10 DEF TypeOK, Edit, WriteConfig
  <2> QED
    BY <1>10, <2>1 DEF Fresh, Edit, secrets
<1>11. CASE RemoveElsewhere
  BY <1>11 DEF Fresh, RemoveElsewhere, ByLoader, Parsed, config, memory
<1>12. CASE UNCHANGED vars
  BY <1>12 DEF Fresh, ByLoader, Parsed, vars, config, secrets, memory
<1> QED
  BY <1>1, <1>2, <1>3, <1>4, <1>5, <1>6, <1>7, <1>8, <1>9, <1>10, <1>11, <1>12
     DEF Next

\* No copy is old and no operation without its type.
LEMMA FreshInv == Spec => [](TypeOK /\ Working /\ Fresh)
<1>1. Init => Fresh
  BY DEF Init, Fresh
<1> QED
  BY <1>1, TypingInit, TypingStep, FreshStep, PTL DEF Spec

\* A process that takes another provider's key out of secrets.json has not seen
\* its last write, or could not read it (secret-store.ts:40, 54).
THEOREM KeysKept == Spec => KeysAreKept
<1>1. ASSUME TypeOK, Fresh, NEW p \in Process, SetKey(p)
      PROVE  op[p].field \in keys' /\ (p \notin missed => keys \subseteq keys')
  BY <1>1 DEF Fresh, SetKey, WriteKeys
<1>2. ASSUME TypeOK, Fresh, NEW p \in Process, RemoveKey(p)
      PROVE  /\ op[p].field \notin keys'
             /\ p \notin missed => keys \ keys' \subseteq {op[p].field}
  BY <1>2 DEF Fresh, RemoveKey, WriteKeys
<1>3. TypeOK /\ Working /\ Fresh =>
        [\A p \in Process :
           /\ SetKey(p) => /\ op[p].field \in keys'
                           /\ p \notin missed => keys \subseteq keys'
           /\ RemoveKey(p) => /\ op[p].field \notin keys'
                              /\ p \notin missed => keys \ keys' \subseteq {op[p].field}
        ]_vars
  BY <1>1, <1>2
<1> QED
  BY <1>3, FreshInv, PTL DEF KeysAreKept

\* A field of config.json that a writer changes is one it was asked to change, or
\* is lost in a way Loses lists: the writer has an old copy, is a command on a
\* file the schema refuses or a field it does not know, a request for its
\* section, or the command saves or removes the provider whose entry has the
\* field, or makes it the planner's (provider-service.ts:30-46).  So the entry of
\* another provider, and a setting besides, is never lost to a fresh copy.
THEOREM UnaskedKept == Spec => UnaskedIsKept
<1>1. ASSUME TypeOK, Working, Fresh, NEW p \in Process, SaveConfig(p),
             NEW f \in Field, (f \in on) # (f \in on'), ~Loses(p, f)
      PROVE  Asks(p, f)
  <2>1. on' = Written(p) /\ pc[p] \in {"loaded", "keyed"}
    BY <1>1 DEF SaveConfig, WriteConfig
  <2>2. op[p] \in Op
    BY <1>1, <2>1 DEF Working
  <2>3. p \notin stale
    BY <1>1 DEF Loses
  <2>4. f \in copy[p] <=> f \in on
    BY <1>1, <2>1, <2>3 DEF Fresh, Loses, Parsed
  <2>5. CASE op[p].kind = "put"
    <3>1. f \notin InSection(op[p].section)
      BY <1>1, <2>5 DEF Loses, InSection
    <3>2. f \notin op[p].fields
      BY <2>2, <2>5, <3>1, OpType
    <3> QED
      BY <1>1, <2>1, <2>4, <2>5, <3>1, <3>2 DEF Written
  <2>6. CASE op[p].kind \in {"provider", "remove"}
    <3>1. f \notin EntryFields(op[p].field)
      BY <1>1, <2>6 DEF Loses
    <3>2. f # op[p].field
      BY <3>1 DEF EntryFields
    <3>3. op[p].kind = "provider" => (f \in Chosen(p) <=> f \in copy[p])
      BY <1>1 DEF Loses, Chosen
    <3>4. f \in Written(p) <=> f \in copy[p]
      BY <2>6, <3>1, <3>2, <3>3 DEF Written, NewEntry
    <3> QED
      BY <1>1, <2>1, <2>4, <3>4
  <2>7. CASE op[p].kind \in {"set", "key"}
    BY <1>1, <2>1, <2>4, <2>7 DEF Asks, Written, Put
  <2> QED
    BY <2>2, <2>5, <2>6, <2>7, OpType
<1>2. TypeOK /\ Working /\ Fresh =>
        [\A p \in Process : SaveConfig(p) =>
           \A f \in Field : (f \in on) # (f \in on') => Asks(p, f) \/ Loses(p, f)]_vars
  BY <1>1
<1> QED
  BY <1>2, FreshInv, PTL DEF UnaskedIsKept

-----------------------------------------------------------------------------
(* References and keys *)

\* Between its first read and its end, a command that no other overlaps has a
\* copy whose references have keys, and an operation that keeps it so: a key
\* stored before the reference, a reference gone before its key.
Orderly(p) ==
  /\ p \in held => cache[p] = keys
  /\ pc[p] \in {"loaded", "keyed"} =>
       /\ copy[p] \cap Provider \subseteq keys \cup EnvKey
       /\ op[p].kind = "put" => op[p].fields \cap Provider = {}
       /\ op[p].kind = "key" => op[p].field \notin Provider
  /\ pc[p] = "keyed" => op[p].kind = "provider" /\ op[p].field \in keys
  /\ pc[p] = "loaded" /\ op[p].kind = "remove" => on \cap Provider \subseteq copy[p]
  /\ pc[p] = "saved" /\ op[p].kind = "remove" => op[p].field \notin on

Alone == \A p, q \in Process : Busy(p) /\ Busy(q) => p = q

Covered == on \cap Provider \subseteq keys \cup EnvKey

Safe == ~loose => Alone /\ Covered /\ \A p \in Process : Orderly(p)

\* Another process than the one that takes a step has nothing to be disturbed.
LEMMA OthersIdle ==
  ASSUME TypeOK, Alone, NEW p \in Process, Busy(p) \/ ~Overlaps(p),
         \A q \in Process \ {p} :
           pc'[q] = pc[q] /\ (q \in held' <=> q \in held),
         Orderly(p)'
  PROVE  Alone' /\ \A q \in Process : Orderly(q)'
<1>1. \A q \in Process \ {p} : pc[q] = "idle" /\ q \notin held
  BY DEF Alone, Busy, Overlaps
<1>2. \A q \in Process \ {p} : pc'[q] = "idle" /\ q \notin held'
  BY <1>1
<1>3. Alone'
  BY <1>2 DEF Alone, Busy
<1>4. \A q \in Process \ {p} : Orderly(q)'
  BY <1>2 DEF Orderly
<1> QED
  BY <1>3, <1>4

\* A command or request that begins with no other under way.
LEMMA SafeBegin ==
  ASSUME TypeOK, Working, Safe, ~loose, NEW p \in Process, Command(p) \/ Request(p),
         ~loose'
  PROVE  Safe'
<1>1. PICK o \in Op :
        /\ Begin(p, o) /\ ~Overlaps(p)
        /\ copy' = [copy EXCEPT ![p] = copy'[p]]
        /\ copy'[p] \subseteq on
        /\ o.kind = "remove" => on \cap Provider \subseteq copy'[p]
        /\ o.kind = "put" => o.fields \cap Provider = {}
        /\ o.kind = "key" => o.field \notin Provider
  <2>1. CASE Command(p)
    <3>1. PICK o \in Orders :
            /\ Begin(p, o)
            /\ copy' = [copy EXCEPT ![p] = Parsed]
            /\ loose' = (loose \/ Overlaps(p) \/ (o.kind = "remove" /\ bad # {}))
      BY <2>1 DEF Command
    <3>2. o \in Op /\ o.kind \notin {"put", "key"}
      BY DEF Op, Orders
    <3>3. ~Overlaps(p) /\ (o.kind = "remove" => bad = {})
      BY <3>1
    <3>4. copy'[p] = Parsed
      BY <3>1 DEF TypeOK
    <3>5. Parsed \subseteq on
      BY DEF Parsed
    <3>6. bad = {} => on \cap Provider \subseteq Parsed
      BY SettingsAssumption DEF Parsed
    <3> QED
      BY <3>1, <3>2, <3>3, <3>4, <3>5, <3>6
  <2>2. CASE Request(p)
    <3>1. PICK o \in Requests :
            /\ Begin(p, o)
            /\ copy' = [copy EXCEPT ![p] = on]
            /\ loose' = (loose \/ Overlaps(p)
                          \/ (IF o.kind = "put" THEN o.fields ELSE {o.field})
                               \cap Provider # {})
      BY <2>2 DEF Request
    <3>2. o \in Op /\ o.kind \in {"put", "key"}
      BY DEF Op, Requests, Bodies
    <3>3. /\ ~Overlaps(p)
          /\ (IF o.kind = "put" THEN o.fields ELSE {o.field}) \cap Provider = {}
      BY <3>1
    <3>4. copy'[p] = on
      BY <3>1 DEF TypeOK
    <3> QED
      BY <3>1, <3>2, <3>3, <3>4
  <2> QED
    BY <2>1, <2>2
<1>2. /\ op'[p] = o /\ pc'[p] = "loaded"
      /\ UNCHANGED <<on, keys, cache, held>>
  BY <1>1 DEF TypeOK, Begin, Goto, secrets
<1>3. Covered /\ Alone /\ Orderly(p)
  BY DEF Safe
<1>4. Orderly(p)'
  BY <1>1, <1>2, <1>3 DEF Orderly, Covered
<1>5. \A q \in Process \ {p} : pc'[q] = pc[q] /\ (q \in held' <=> q \in held)
  BY <1>1, <1>2 DEF TypeOK, Begin, Goto
<1>6. Alone' /\ \A q \in Process : Orderly(q)'
  BY <1>1, <1>3, <1>4, <1>5, OthersIdle
<1> QED
  BY <1>2, <1>3, <1>6 DEF Safe, Covered

\* A step of a command under way.
LEMMA SafeWork ==
  ASSUME TypeOK, Working, Safe, ~loose, NEW p \in Process,
         \/ ReadKeys(p) \/ SetKey(p) \/ RemoveKey(p) \/ SaveConfig(p)
         \/ SkipConfig(p) \/ NextProvider(p) \/ End(p),
         ~loose'
  PROVE  Safe'
<1>1. Covered /\ Alone /\ Orderly(p)
  BY DEF Safe
<1>2. Busy(p)
  BY DEF Busy, ReadKeys, SetKey, RemoveKey, SaveConfig, SkipConfig, NextProvider, End
<1>3. \A q \in Process \ {p} : pc'[q] = pc[q] /\ (q \in held' <=> q \in held)
  BY DEF TypeOK, ReadKeys, SetKey, RemoveKey, SaveConfig, Saved, SkipConfig,
         NextProvider, End, Goto
<1>4. pc[p] # "idle" => op[p] \in Op
  BY DEF Working
<1>5. ASSUME ReadKeys(p) PROVE Orderly(p)' /\ Covered'
  BY <1>1, <1>5 DEF TypeOK, Orderly, Covered, ReadKeys, config, memory
<1>6. ASSUME SetKey(p) PROVE Orderly(p)' /\ Covered'
  BY <1>1, <1>6 DEF TypeOK, Orderly, Covered, SetKey, Stores, WriteKeys, Goto,
                    config, memory
<1>7. ASSUME RemoveKey(p) PROVE Orderly(p)' /\ Covered'
  BY <1>1, <1>7 DEF TypeOK, Orderly, Covered, RemoveKey, WriteKeys, Goto, config,
                    memory
<1>8. ASSUME SaveConfig(p) PROVE Orderly(p)' /\ Covered'
  <2>1. /\ on' = Written(p) /\ UNCHANGED <<keys, cache, held>>
        /\ \/ op[p].kind \in {"provider", "remove"} /\ op' = op /\ pc'[p] = "saved"
           \/ op[p].kind \notin {"provider", "remove"} /\ pc'[p] = "idle"
    BY <1>8 DEF TypeOK, SaveConfig, WriteConfig, Saved, Goto, secrets, memory
  <2>2. /\ pc[p] \in {"loaded", "keyed"} /\ op[p] \in Op
        /\ pc[p] = "loaded" => ~Stores(p)
    BY <1>4, <1>8 DEF SaveConfig
  <2>3. copy[p] \cap Provider \subseteq keys \cup EnvKey
    BY <1>1, <2>2 DEF Orderly
  <2>4. Written(p) \cap Provider \subseteq keys \cup EnvKey
    <3>1. CASE op[p].kind = "put"
      BY <1>1, <2>2, <2>3, <3>1 DEF Orderly, Written
    <3>2. CASE op[p].kind = "remove"
      BY <2>3, <3>2 DEF Written
    <3>3. CASE op[p].kind \in {"key", "set"}
      <4>1. op[p].field \notin Provider
        BY <1>1, <2>2, <3>3, OpType, SettingsAssumption DEF Orderly
      <4>2. Written(p) \subseteq copy[p] \cup {op[p].field}
        BY <3>3 DEF Written, Put
      <4> QED
        BY <2>3, <4>1, <4>2
    <3>4. CASE op[p].kind = "provider"
      <4>1. op[p].to => op[p].field \in keys \cup EnvKey
        BY <1>1, <2>2, <3>4 DEF Orderly, Stores
      <4>2. Chosen(p) \cap Provider \subseteq copy[p]
        BY SettingsAssumption DEF Chosen
      <4>3. Written(p) \subseteq Chosen(p) \cup NewEntry(p)
        BY <3>4 DEF Written
      <4>4. NewEntry(p) \subseteq keys \cup EnvKey
        BY <4>1 DEF NewEntry
      <4> QED
        BY <2>3, <4>2, <4>3, <4>4
    <3> QED
      BY <2>2, <3>1, <3>2, <3>3, <3>4, OpType
  <2>5. op[p].kind = "remove" => op[p].field \notin Written(p)
    BY DEF Written, EntryFields
  <2> QED
    BY <1>1, <2>1, <2>4, <2>5 DEF Orderly, Covered
<1>9. ASSUME SkipConfig(p) PROVE Orderly(p)' /\ Covered'
  <2>1. op[p] \in Op /\ op[p].field \in Provider
    BY <1>4, <1>9, OpType DEF SkipConfig, HasNothing
  <2> QED
    BY <1>1, <1>9, <2>1 DEF TypeOK, Orderly, Covered, SkipConfig, HasNothing,
                            EntryFields, Goto, config, secrets, memory
<1>10. ASSUME NextProvider(p) PROVE Orderly(p)' /\ Covered'
  BY <1>1, <1>10 DEF TypeOK, Orderly, Covered, NextProvider, Goto, config, secrets
<1>11. ASSUME End(p) PROVE Orderly(p)' /\ Covered'
  BY <1>1, <1>11 DEF TypeOK, Orderly, Covered, End, Goto, config, secrets
<1>12. Orderly(p)' /\ Covered'
  BY <1>5, <1>6, <1>7, <1>8, <1>9, <1>10, <1>11
<1> QED
  BY <1>1, <1>2, <1>3, <1>12, OthersIdle DEF Safe

\* Safe is inductive.
LEMMA SafeStep == TypeOK /\ Working /\ Safe /\ [Next]_vars => Safe'
<1> SUFFICES ASSUME TypeOK, Working, Safe, [Next]_vars, ~loose' PROVE Safe'
  BY DEF Safe
<1>1. CASE Edit
  <2>1. ~loose
    BY <1>1, Zenon DEF Edit
  <2>2. on' \cap Provider \subseteq on
    <3>1. ASSUME NEW f \in Field, loose' = (loose \/ f \in Provider),
                 WriteConfig(Put(on, f, f \notin on), bad, {})
          PROVE  on' \cap Provider \subseteq on
      <4>1. f \notin Provider
        BY <3>1
      <4>2. on' \subseteq on \cup {f}
        BY <3>1 DEF WriteConfig, Put
      <4> QED
        BY <4>1, <4>2
    <3> QED
      BY <1>1, <3>1 DEF Edit, WriteConfig
  <2>3. UNCHANGED <<keys, pc, op, copy, cache, held>>
    BY <1>1 DEF Edit, secrets, memory
  <2>4. Alone' /\ Covered'
    BY <2>1, <2>2, <2>3 DEF Safe, Alone, Busy, Covered
  <2>5. ASSUME NEW p \in Process PROVE Orderly(p)'
    <3>1. Orderly(p) /\ (pc[p] # "idle" => op[p] \in Op)
      BY <2>1 DEF Safe, Working
    <3>2. pc[p] # "idle" /\ op[p].kind = "remove" => op[p].field \in Provider
      BY <3>1, OpType
    <3> QED
      BY <2>2, <2>3, <3>1, <3>2 DEF Orderly
  <2> QED
    BY <2>4, <2>5 DEF Safe
<1>2. CASE RemoveElsewhere
  BY <1>2 DEF RemoveElsewhere
<1>3. CASE UNCHANGED vars
  BY <1>3 DEF Safe, Alone, Busy, Covered, Orderly, vars, config, secrets, memory
<1>4. ASSUME NEW p \in Process, Command(p) \/ Request(p) PROVE Safe'
  <2>1. ~loose
    BY <1>4, Zenon DEF Command, Request
  <2> QED
    BY <1>4, <2>1, SafeBegin
<1>5. ASSUME NEW p \in Process,
             \/ ReadKeys(p) \/ SetKey(p) \/ RemoveKey(p) \/ SaveConfig(p)
             \/ SkipConfig(p) \/ NextProvider(p) \/ End(p)
      PROVE  Safe'
  <2>1. ~loose
    BY <1>5, Zenon DEF ReadKeys, SetKey, RemoveKey, SaveConfig, SkipConfig,
                       NextProvider, End
  <2> QED
    BY <1>5, <2>1, SafeWork
<1> QED
  BY <1>1, <1>2, <1>3, <1>4, <1>5 DEF Next

\* A provider that config.json refers to has its key, killed commands
\* included, but for the causes `loose` names (provider-service.ts:19,
\* providers.command.ts:85).
THEOREM ReferencesHaveKeys == Spec => []RefsHaveKeys
<1>1. Init => Safe
  BY DEF Init, Safe, Alone, Busy, Covered, Orderly
<1>2. Safe => RefsHaveKeys
  BY DEF Safe, Covered, RefsHaveKeys
<1> QED
  BY <1>1, <1>2, TypingInit, TypingStep, SafeStep, PTL DEF Spec

-----------------------------------------------------------------------------
(* The task list of a run *)

Unique(list) == \A i, j \in DOMAIN list : list[i].id = list[j].id => i = j
FiniteDeps(list) == \A i \in DOMAIN list : IsFiniteSet(list[i].deps)

\* Lists whose tasks have ids of their own, and workflow files.
FileLists == {list \in Seq(Task) : FiniteDeps(list)}
Lists == {list \in FileLists : Unique(list)}

-----------------------------------------------------------------------------
(* Lists *)

LEMMA TaskParts ==
  ASSUME NEW list \in Seq(Task), NEW i \in DOMAIN list
  PROVE  /\ DOMAIN list = 1 .. Len(list)
         /\ list[i] \in Task /\ list[i].id \in Nat \ {0}
         /\ list[i].title \in Title /\ list[i].deps \in SUBSET (Nat \ {0})
         /\ list[i].status \in Status
<1>1. DOMAIN list = 1 .. Len(list) /\ list[i] \in Task
  BY LenProperties, ElementOfSeq
<1> QED
  BY <1>1 DEF Task

\* In a list with ids of their own, an id has one place.
LEMMA TheEntry ==
  ASSUME NEW list \in Lists, NEW i \in DOMAIN list
  PROVE  At(list, list[i].id) = list[i] /\ Position(list, list[i].id) = i
<1>1. \A j \in DOMAIN list : list[j].id = list[i].id => j = i
  BY DEF Lists, Unique
<1>2. (CHOOSE j \in DOMAIN list : list[j].id = list[i].id) = i
  BY <1>1, Zenon
<1> QED
  BY <1>2, Zenon DEF At, Position

LEMMA HasEntry ==
  ASSUME NEW list, NEW t \in Ids(list)
  PROVE  /\ Position(list, t) \in DOMAIN list
         /\ list[Position(list, t)].id = t
         /\ At(list, t) = list[Position(list, t)]
         /\ Has(list, t)
<1>1. \E i \in DOMAIN list : list[i].id = t
  BY DEF Ids
<1> QED
  BY <1>1, Zenon DEF Position, At, Has

\* A list is a list of tasks with ids of their own exactly when it has as many
\* ids as entries.
LEMMA UniqueCounts ==
  ASSUME NEW list \in Seq(Task)
  PROVE  /\ IsFiniteSet(Ids(list))
         /\ Unique(list) <=> Cardinality(Ids(list)) = Len(list)
<1> DEFINE D == DOMAIN list
           f == [i \in D |-> list[i].id]
<1>1. D = 1 .. Len(list) /\ Len(list) \in Nat
  BY LenProperties
<1>2. IsFiniteSet(D) /\ Cardinality(D) = Len(list)
  BY <1>1, FS_Interval
<1>3. f \in Surjection(D, Ids(list))
  BY DEF Surjection, Ids
<1>4. /\ IsFiniteSet(Ids(list))
      /\ Cardinality(Ids(list)) = Cardinality(D) <=> f \in Injection(D, Ids(list))
  BY <1>2, <1>3, FS_Surjection, Zenon
<1>5. f \in Injection(D, Ids(list)) <=> Unique(list)
  BY DEF Injection, IsInjective, Unique, Ids
<1> QED
  BY <1>2, <1>4, <1>5

\* Changing entries without their ids.
LEMMA SameIds ==
  ASSUME NEW list \in Lists, NEW new \in Seq(Task),
         DOMAIN new = DOMAIN list, FiniteDeps(new),
         \A i \in DOMAIN list : new[i].id = list[i].id
  PROVE  /\ new \in Lists /\ Ids(new) = Ids(list)
         /\ \A t \in Ids(list) : /\ Position(new, t) = Position(list, t)
                                 /\ At(new, t) = new[Position(list, t)]
<1>1. new \in Lists
  BY DEF Lists, FileLists, Unique
<1>2. Ids(new) = Ids(list)
  BY DEF Ids
<1>3. ASSUME NEW t \in Ids(list)
      PROVE  Position(new, t) = Position(list, t) /\ At(new, t) = new[Position(list, t)]
  <2>1. Position(list, t) \in DOMAIN list /\ new[Position(list, t)].id = t
    BY <1>3, HasEntry
  <2> QED
    BY <1>1, <2>1, TheEntry
<1> QED
  BY <1>1, <1>2, <1>3

\* Joining lists that share no id.
LEMMA Joined ==
  ASSUME NEW a \in Lists, NEW b \in Lists, Ids(a) \cap Ids(b) = {}
  PROVE  /\ a \o b \in Lists /\ Ids(a \o b) = Ids(a) \cup Ids(b)
         /\ \A t \in Ids(a) : At(a \o b, t) = At(a, t)
         /\ \A t \in Ids(b) : At(a \o b, t) = At(b, t)
<1> DEFINE c == a \o b
<1>0. a \in Seq(Task) /\ b \in Seq(Task)
  BY DEF Lists, FileLists
<1>1. /\ DOMAIN a = 1 .. Len(a) /\ DOMAIN b = 1 .. Len(b)
      /\ Len(a) \in Nat /\ Len(b) \in Nat
  BY <1>0, LenProperties
<1>2. /\ c \in Seq(Task) /\ Len(c) = Len(a) + Len(b)
      /\ \A i \in 1 .. Len(a) + Len(b) :
           c[i] = IF i <= Len(a) THEN a[i] ELSE b[i - Len(a)]
  BY <1>0, ConcatProperties
<1>3. DOMAIN c = 1 .. Len(a) + Len(b)
  BY <1>2, LenProperties
<1> HIDE DEF c
<1>4. \A i \in DOMAIN a : i \in DOMAIN c /\ c[i] = a[i]
  BY <1>1, <1>2, <1>3
<1>5. \A i \in DOMAIN b : Len(a) + i \in DOMAIN c /\ c[Len(a) + i] = b[i]
  <2> SUFFICES ASSUME NEW i \in DOMAIN b
               PROVE  Len(a) + i \in DOMAIN c /\ c[Len(a) + i] = b[i]
    OBVIOUS
  <2>1. i \in 1 .. Len(b) /\ Len(a) + i \in 1 .. Len(a) + Len(b) /\ ~(Len(a) + i <= Len(a))
        /\ Len(a) + i - Len(a) = i
    BY <1>1
  <2> QED
    BY <1>2, <1>3, <2>1
<1>6. \A i \in DOMAIN c : \/ i \in DOMAIN a /\ c[i] = a[i]
                          \/ i - Len(a) \in DOMAIN b /\ c[i] = b[i - Len(a)]
  BY <1>1, <1>2, <1>3
<1>7. \A i \in DOMAIN a, j \in DOMAIN b : a[i].id # b[j].id
  BY DEF Ids
<1>8. Unique(c)
  <2> SUFFICES ASSUME NEW i \in DOMAIN c, NEW j \in DOMAIN c, c[i].id = c[j].id
               PROVE  i = j
    BY DEF Unique
  <2>0. i \in Int /\ j \in Int
    BY <1>3
  <2>1. CASE i \in DOMAIN a /\ c[i] = a[i] /\ j \in DOMAIN a /\ c[j] = a[j]
    BY <2>1 DEF Lists, Unique
  <2>2. CASE /\ i - Len(a) \in DOMAIN b /\ c[i] = b[i - Len(a)]
             /\ j - Len(a) \in DOMAIN b /\ c[j] = b[j - Len(a)]
    <3>1. i - Len(a) = j - Len(a)
      BY <2>2 DEF Lists, Unique
    <3> QED
      BY <1>1, <2>0, <3>1
  <2> QED
    BY <1>6, <1>7, <2>1, <2>2
<1>9. FiniteDeps(c)
  BY <1>6 DEF FiniteDeps, Lists, FileLists
<1>10. c \in Lists
  BY <1>2, <1>8, <1>9 DEF Lists, FileLists
<1>11. Ids(c) = Ids(a) \cup Ids(b)
  <2>1. Ids(c) \subseteq Ids(a) \cup Ids(b)
    BY <1>6 DEF Ids
  <2>2. Ids(a) \subseteq Ids(c)
    BY <1>4 DEF Ids
  <2>3. Ids(b) \subseteq Ids(c)
    BY <1>5 DEF Ids
  <2> QED
    BY <2>1, <2>2, <2>3
<1>12. ASSUME NEW t \in Ids(a) PROVE At(c, t) = At(a, t)
  <2>1. /\ Position(a, t) \in DOMAIN a /\ a[Position(a, t)].id = t
        /\ At(a, t) = a[Position(a, t)]
    BY <1>12, HasEntry
  <2>2. Position(a, t) \in DOMAIN c /\ c[Position(a, t)] = At(a, t)
    BY <1>4, <2>1
  <2>3. At(c, c[Position(a, t)].id) = c[Position(a, t)]
    BY <1>10, <2>2, TheEntry
  <2> QED
    BY <2>1, <2>2, <2>3
<1>13. ASSUME NEW t \in Ids(b) PROVE At(c, t) = At(b, t)
  <2> DEFINE p == Position(b, t)
  <2>1. p \in DOMAIN b /\ b[p].id = t /\ At(b, t) = b[p]
    BY <1>13, HasEntry
  <2> HIDE DEF p
  <2>2. Len(a) + p \in DOMAIN c /\ c[Len(a) + p] = At(b, t)
    BY <1>5, <2>1
  <2>3. At(c, c[Len(a) + p].id) = c[Len(a) + p]
    BY <1>10, <2>2, TheEntry
  <2> QED
    BY <2>1, <2>2, <2>3
<1> QED
  BY <1>10, <1>11, <1>12, <1>13 DEF c

-----------------------------------------------------------------------------
(* Kept *)

Rank(K, i) == Cardinality({j \in K : j < i})

LEMMA RankGrows ==
  ASSUME NEW K \in SUBSET Nat, IsFiniteSet(K), NEW i \in K
  PROVE  /\ Rank(K, i) \in 0 .. Cardinality(K) - 1
         /\ \A k \in K : i < k => Rank(K, i) < Rank(K, k)
<1> DEFINE Below(k) == {j \in K : j < k}
<1>1. \A k \in K : IsFiniteSet(Below(k)) /\ Cardinality(Below(k)) \in Nat
  BY FS_Subset, FS_CardinalityType
<1>2. IsFiniteSet(Below(i) \cup {i}) /\ Cardinality(Below(i) \cup {i}) = Cardinality(Below(i)) + 1
  <2>1. i \notin Below(i)
    OBVIOUS
  <2> QED
    BY <1>1, <2>1, FS_AddElement
<1>3. Cardinality(Below(i)) + 1 <= Cardinality(K)
  <2>1. Below(i) \cup {i} \in SUBSET K
    OBVIOUS
  <2> QED
    BY <1>2, <2>1, FS_Subset
<1>4. ASSUME NEW k \in K, i < k PROVE Cardinality(Below(i)) + 1 <= Cardinality(Below(k))
  <2>1. \A j \in K : j < i => j < k
    BY <1>4
  <2>2. Below(i) \cup {i} \in SUBSET Below(k)
    BY <1>4, <2>1
  <2> QED
    BY <1>1, <1>2, <2>2, FS_Subset
<1>5. Cardinality(K) \in Nat
  BY FS_CardinalityType
<1>6. Rank(K, i) = Cardinality(Below(i)) /\ \A k \in K : Rank(K, k) = Cardinality(Below(k))
  BY DEF Rank
<1> HIDE DEF Below
<1> QED
  BY <1>1, <1>3, <1>4, <1>5, <1>6

\* Every rank up to their number is the rank of exactly one of them.
LEMMA Ranks ==
  ASSUME NEW K \in SUBSET Nat, IsFiniteSet(K)
  PROVE  /\ Cardinality(K) \in Nat
         /\ \A i, k \in K : Rank(K, i) = Rank(K, k) => i = k
         /\ \A i \in K : Rank(K, i) + 1 \in 1 .. Cardinality(K)
         /\ \A n \in 1 .. Cardinality(K) : \E i \in K : Rank(K, i) = n - 1
<1> DEFINE T == 0 .. Cardinality(K) - 1
           f == [i \in K |-> Rank(K, i)]
<1>1. Cardinality(K) \in Nat
  BY FS_CardinalityType
<1>2. \A i \in K : Rank(K, i) \in T
  BY RankGrows
<1>3. \A i, k \in K : Rank(K, i) = Rank(K, k) => i = k
  <2> SUFFICES ASSUME NEW i \in K, NEW k \in K, Rank(K, i) = Rank(K, k)
               PROVE  i = k
    OBVIOUS
  <2>1. i < k => Rank(K, i) < Rank(K, k)
    BY RankGrows
  <2>2. k < i => Rank(K, k) < Rank(K, i)
    BY RankGrows
  <2>3. Rank(K, i) \in Int /\ Rank(K, k) \in Int
    BY <1>2
  <2> QED
    BY <2>1, <2>2, <2>3
<1>4. IsFiniteSet(T) /\ Cardinality(T) = Cardinality(K)
  <2>1. 0 \in Int /\ Cardinality(K) - 1 \in Int
    BY <1>1
  <2>2. /\ IsFiniteSet(T)
        /\ Cardinality(T) = IF 0 > Cardinality(K) - 1 THEN 0
                            ELSE Cardinality(K) - 1 - 0 + 1
    BY <2>1, FS_Interval, Zenon
  <2> QED
    BY <1>1, <2>2
<1>5. f \in Injection(K, T)
  BY <1>2, <1>3 DEF Injection, IsInjective
<1>6. f \in Surjection(K, T)
  BY <1>4, <1>5, FS_Injection, Zenon
<1>7. \A n \in T : \E i \in K : Rank(K, i) = n
  BY <1>6 DEF Surjection
<1>8. \A n \in 1 .. Cardinality(K) : n - 1 \in T
  BY <1>1
<1>9. \A i \in K : Rank(K, i) + 1 \in 1 .. Cardinality(K)
  BY <1>1, <1>2
<1> QED
  BY <1>1, <1>3, <1>7, <1>8, <1>9

LEMMA KeptIs ==
  ASSUME NEW list \in Lists, NEW K \in SUBSET DOMAIN list
  PROVE  /\ Kept(list, K) \in Lists
         /\ Ids(Kept(list, K)) = {list[i].id : i \in K}
         /\ \A t \in Ids(Kept(list, K)) : At(Kept(list, K), t) = At(list, t)
<1> DEFINE new == Kept(list, K)
           nth(n) == CHOOSE i \in K : Rank(K, i) = n - 1
<1>1. list \in Seq(Task) /\ DOMAIN list = 1 .. Len(list) /\ Len(list) \in Nat
  BY LenProperties DEF Lists, FileLists
<1>2. K \in SUBSET Nat /\ IsFiniteSet(K)
  <2>1. IsFiniteSet(1 .. Len(list))
    BY <1>1, FS_Interval
  <2> QED
    BY <1>1, <2>1, FS_Subset
<1>3. /\ Cardinality(K) \in Nat
      /\ \A i, k \in K : Rank(K, i) = Rank(K, k) => i = k
      /\ \A i \in K : Rank(K, i) + 1 \in 1 .. Cardinality(K)
      /\ \A n \in 1 .. Cardinality(K) : \E i \in K : Rank(K, i) = n - 1
  BY <1>2, Ranks, Zenon
<1>4. \A n \in 1 .. Cardinality(K) : nth(n) \in K /\ Rank(K, nth(n)) = n - 1
  BY <1>3, Zenon
<1>5. new = [n \in 1 .. Cardinality(K) |-> list[nth(n)]]
  BY Zenon DEF Kept, Rank
<1> HIDE DEF nth, new
<1>6. \A n \in 1 .. Cardinality(K) : list[nth(n)] \in Task
  BY <1>1, <1>4, ElementOfSeq
<1>7. new \in Seq(Task) /\ DOMAIN new = 1 .. Cardinality(K)
  BY <1>3, <1>5, <1>6, IsASeq
<1>8. \A n \in DOMAIN new : new[n] = list[nth(n)] /\ nth(n) \in K
  BY <1>4, <1>5
<1>9. \A n, m \in DOMAIN new : nth(n) = nth(m) => n = m
  <2> SUFFICES ASSUME NEW n \in DOMAIN new, NEW m \in DOMAIN new, nth(n) = nth(m)
               PROVE  n = m
    OBVIOUS
  <2>1. n - 1 = m - 1 /\ n \in Int /\ m \in Int
    BY <1>4, <1>7
  <2> QED
    BY <2>1
<1>10. Unique(new)
  BY <1>8, <1>9 DEF Unique, Lists
<1>11. FiniteDeps(new)
  BY <1>8 DEF FiniteDeps, Lists, FileLists
<1>12. new \in Lists
  BY <1>7, <1>10, <1>11 DEF Lists, FileLists
<1>13. \A i \in K : \E n \in DOMAIN new : nth(n) = i
  <2> SUFFICES ASSUME NEW i \in K PROVE \E n \in DOMAIN new : nth(n) = i
    OBVIOUS
  <2>0. Rank(K, i) + 1 \in 1 .. Cardinality(K) /\ Rank(K, i) \in Int
    BY <1>2, <1>3, RankGrows
  <2>1. Rank(K, i) + 1 \in 1 .. Cardinality(K) /\ (Rank(K, i) + 1) - 1 = Rank(K, i)
    BY <2>0
  <2>2. nth(Rank(K, i) + 1) = i
    BY <1>3, <1>4, <2>1
  <2> QED
    BY <1>7, <2>1, <2>2
<1>14. Ids(new) = {list[i].id : i \in K}
  BY <1>8, <1>13 DEF Ids
<1>15. ASSUME NEW t \in Ids(new) PROVE At(new, t) = At(list, t)
  <2>1. PICK n \in DOMAIN new : new[n].id = t
    BY <1>15 DEF Ids
  <2>2. new[n] = list[nth(n)] /\ nth(n) \in DOMAIN list
    BY <1>8
  <2>3. At(new, new[n].id) = new[n]
    BY <1>12, TheEntry
  <2>4. At(list, list[nth(n)].id) = list[nth(n)]
    BY <2>2, TheEntry
  <2> QED
    BY <2>1, <2>2, <2>3, <2>4
<1> QED
  BY <1>12, <1>14, <1>15 DEF new

\* A finite set of numbers has a largest.
LEMMA LargestOf ==
  ASSUME NEW S \in SUBSET Nat, IsFiniteSet(S), S # {}
  PROVE  Max(S) \in S /\ \A k \in S : k <= Max(S)
<1>1. Cardinality(S) \in Nat \ {0}
  BY FS_CardinalityType, FS_EmptySet
<1>2. PICK m \in S : Rank(S, m) = Cardinality(S) - 1
  <2>1. Cardinality(S) \in 1 .. Cardinality(S)
    BY <1>1
  <2> QED
    BY <2>1, Ranks, Zenon
<1>3. \A k \in S : m >= k
  <2> SUFFICES ASSUME NEW k \in S, ~(m >= k) PROVE FALSE
    OBVIOUS
  <2>1. m < k
    OBVIOUS
  <2>2. Rank(S, m) < Rank(S, k)
    BY <2>1, RankGrows
  <2>3. Rank(S, k) \in 0 .. Cardinality(S) - 1
    BY RankGrows
  <2> QED
    BY <1>1, <1>2, <2>2, <2>3
<1>4. Max(S) \in S /\ \A k \in S : Max(S) >= k
  BY <1>2, <1>3, Zenon DEF Max
<1> QED
  BY <1>4

LEMMA SmallestOf ==
  ASSUME NEW S \in SUBSET Nat, IsFiniteSet(S), S # {}
  PROVE  \E m \in S : \A k \in S : m <= k
<1>1. Cardinality(S) \in Nat \ {0}
  BY FS_CardinalityType, FS_EmptySet
<1>2. PICK m \in S : Rank(S, m) = 1 - 1
  <2>1. 1 \in 1 .. Cardinality(S)
    BY <1>1
  <2> QED
    BY <2>1, Ranks, Zenon
<1>3. \A k \in S : m <= k
  <2> SUFFICES ASSUME NEW k \in S, k < m PROVE FALSE
    OBVIOUS
  <2>1. Rank(S, k) < Rank(S, m)
    BY RankGrows
  <2>2. Rank(S, k) \in 0 .. Cardinality(S) - 1
    BY RankGrows
  <2> QED
    BY <1>1, <1>2, <2>1, <2>2
<1> QED
  BY <1>3

\* What holds of 0 and goes from each number to the next holds up to n.
LEMMA UpTo ==
  ASSUME NEW n \in Nat, NEW P, 0 \in P, \A i \in 1 .. n : i - 1 \in P => i \in P
  PROVE  \A i \in 0 .. n : i \in P
<1> DEFINE S == {i \in 0 .. n : i \notin P}
<1>1. SUFFICES ASSUME S # {} PROVE FALSE
  OBVIOUS
<1>2. S \in SUBSET Nat /\ IsFiniteSet(S)
  <2>1. IsFiniteSet(0 .. n)
    BY FS_Interval
  <2>2. S \in SUBSET (0 .. n) /\ S \in SUBSET Nat
    OBVIOUS
  <2> QED
    BY <2>1, <2>2, FS_Subset
<1>3. PICK m \in S : \A k \in S : m <= k
  BY <1>1, <1>2, SmallestOf
<1>4. m \in 0 .. n /\ m \notin P
  OBVIOUS
<1>5. m - 1 \in 0 .. n /\ m - 1 \notin S /\ m \in 1 .. n
  <2>1. m # 0
    BY <1>4
  <2>2. m \in 1 .. n /\ m - 1 \in 0 .. n
    BY <1>4, <2>1
  <2>3. m - 1 \notin S
    BY <1>3, <1>4
  <2> QED
    BY <2>2, <2>3
<1>6. m - 1 \in P
  BY <1>5
<1> QED
  BY <1>4, <1>5, <1>6

-----------------------------------------------------------------------------
(* Ids and dependencies *)

LEMMA AnEntry ==
  ASSUME NEW list \in Lists, NEW t \in Ids(list)
  PROVE  /\ At(list, t) \in Task /\ At(list, t).id = t
         /\ IsFiniteSet(At(list, t).deps)
         /\ At(list, t).deps \in SUBSET (Nat \ {0})
         /\ At(list, t).status \in Status /\ At(list, t).title \in Title
         /\ t \in Nat \ {0}
<1> DEFINE p == Position(list, t)
<1>1. p \in DOMAIN list /\ list[p].id = t /\ At(list, t) = list[p]
  BY HasEntry
<1> HIDE DEF p
<1>2. list \in Seq(Task) /\ FiniteDeps(list)
  BY DEF Lists, FileLists
<1>3. list[p] \in Task /\ list[p].id \in Nat \ {0} /\ list[p].title \in Title
      /\ list[p].deps \in SUBSET (Nat \ {0}) /\ list[p].status \in Status
  BY <1>1, <1>2, TaskParts
<1> QED
  BY <1>1, <1>2, <1>3 DEF FiniteDeps

\* The ids and dependencies of a list are finitely many, and there is a new id.
LEMMA NewId ==
  ASSUME NEW list \in FileLists
  PROVE  /\ Largest(list) \in Nat
         /\ \A t \in Named(list) : t \in Nat \ {0} /\ t <= Largest(list)
<1> DEFINE D == DOMAIN list
           Deps == {list[i].deps : i \in D}
           f == [i \in D |-> list[i].deps]
<1>1. list \in Seq(Task) /\ D = 1 .. Len(list) /\ Len(list) \in Nat
  BY LenProperties DEF FileLists
<1>2. IsFiniteSet(D)
  BY <1>1, FS_Interval
<1>3. IsFiniteSet(Deps)
  <2>1. f \in Surjection(D, Deps)
    BY DEF Surjection
  <2> QED
    BY <1>2, <2>1, FS_Surjection
<1>4. IsFiniteSet(UNION Deps)
  <2>1. \A T \in Deps : IsFiniteSet(T)
    BY DEF FileLists, FiniteDeps
  <2> QED
    BY <1>3, <2>1, FS_UNION
<1>5. IsFiniteSet(Ids(list))
  BY <1>1, UniqueCounts
<1>6. IsFiniteSet(Named(list) \cup {0})
  BY <1>4, <1>5, FS_Union, FS_AddElement DEF Named
<1>7. Named(list) \in SUBSET (Nat \ {0})
  <2>1. \A i \in D : list[i].id \in Nat \ {0} /\ list[i].deps \in SUBSET (Nat \ {0})
    BY <1>1, TaskParts
  <2> QED
    BY <2>1 DEF Named, Ids
<1>8. Named(list) \cup {0} \in SUBSET Nat /\ Named(list) \cup {0} # {}
  BY <1>7
<1>9. Largest(list) \in Named(list) \cup {0}
      /\ \A k \in Named(list) \cup {0} : k <= Largest(list)
  BY <1>6, <1>8, LargestOf, Zenon DEF Largest
<1> QED
  BY <1>7, <1>8, <1>9

\* Every dependency names a task.
Closed(list) == \A t \in Ids(list) : At(list, t).deps \subseteq Ids(list)

LEMMA ClosedIs ==
  ASSUME NEW list \in Lists
  PROVE  /\ Named(list) = Ids(list) <=> Closed(list)
         /\ \A t \in Ids(list) : At(list, t).deps \subseteq Named(list)
<1>1. \A i \in DOMAIN list : list[i].id \in Ids(list) /\ At(list, list[i].id) = list[i]
  BY TheEntry DEF Ids
<1>2. \A t \in Ids(list) : \E i \in DOMAIN list : list[i].id = t
  BY DEF Ids
<1>3. \A t \in Ids(list) : At(list, t).deps \subseteq Named(list)
  BY <1>1, <1>2 DEF Named
<1>4. Closed(list) => Named(list) = Ids(list)
  BY <1>1 DEF Closed, Named
<1> QED
  BY <1>3, <1>4 DEF Closed

-----------------------------------------------------------------------------
(* What the edits compute *)

\* A part of a list, and a list of one.
LEMMA CutIs ==
  ASSUME NEW list \in Lists, NEW m \in 1 .. Len(list) + 1, NEW n \in 0 .. Len(list)
  PROVE  /\ SubSeq(list, m, n) \in Lists
         /\ Ids(SubSeq(list, m, n)) = {list[i].id : i \in m .. n}
         /\ \A t \in Ids(SubSeq(list, m, n)) : At(SubSeq(list, m, n), t) = At(list, t)
<1> DEFINE c == SubSeq(list, m, n)
<1>1. list \in Seq(Task) /\ DOMAIN list = 1 .. Len(list) /\ Len(list) \in Nat
  BY LenProperties DEF Lists, FileLists
<1>2. m .. n \subseteq DOMAIN list /\ m \in Int /\ n \in Int
  BY <1>1
<1>3. \A i \in m .. n : list[i] \in Task
  BY <1>1, <1>2, ElementOfSeq
<1>4. /\ c \in Seq(Task) /\ Len(c) = IF m <= n THEN n - m + 1 ELSE 0
      /\ \A i \in 1 .. n - m + 1 : c[i] = list[m + i - 1]
  BY <1>2, <1>3, SubSeqProperties
<1>5. DOMAIN c = 1 .. n - m + 1
  <2>1. DOMAIN c = 1 .. Len(c)
    BY <1>4, LenProperties
  <2> QED
    BY <1>2, <1>4, <2>1
<1> HIDE DEF c
<1>6. \A i \in DOMAIN c : m + i - 1 \in m .. n /\ c[i] = list[m + i - 1]
  BY <1>2, <1>4, <1>5
<1>7. \A j \in m .. n : j - m + 1 \in DOMAIN c /\ c[j - m + 1] = list[j]
  <2> SUFFICES ASSUME NEW j \in m .. n
               PROVE  j - m + 1 \in DOMAIN c /\ c[j - m + 1] = list[j]
    OBVIOUS
  <2>1. j - m + 1 \in 1 .. n - m + 1 /\ m + (j - m + 1) - 1 = j
    BY <1>2
  <2> QED
    BY <1>5, <1>6, <2>1
<1>8. Unique(c)
  <2> SUFFICES ASSUME NEW i \in DOMAIN c, NEW j \in DOMAIN c, c[i].id = c[j].id
               PROVE  i = j
    BY DEF Unique
  <2>1. m + i - 1 = m + j - 1
    BY <1>2, <1>6 DEF Lists, Unique
  <2>2. i \in Int /\ j \in Int
    BY <1>5
  <2> QED
    BY <1>2, <2>1, <2>2
<1>9. FiniteDeps(c)
  BY <1>2, <1>6 DEF FiniteDeps, Lists, FileLists
<1>10. c \in Lists
  BY <1>4, <1>8, <1>9 DEF Lists, FileLists
<1>11. Ids(c) = {list[i].id : i \in m .. n}
  <2>1. \A i \in DOMAIN c : \E j \in m .. n : c[i].id = list[j].id
    BY <1>6
  <2>2. \A j \in m .. n : \E i \in DOMAIN c : c[i].id = list[j].id
    BY <1>7
  <2>3. Ids(c) \subseteq {list[i].id : i \in m .. n}
    BY <2>1 DEF Ids
  <2>4. {list[i].id : i \in m .. n} \subseteq Ids(c)
    BY <2>2 DEF Ids
  <2> QED
    BY <2>3, <2>4
<1>12. ASSUME NEW t \in Ids(c) PROVE At(c, t) = At(list, t)
  <2>1. PICK i \in DOMAIN c : c[i].id = t
    BY <1>12 DEF Ids
  <2>2. At(c, c[i].id) = c[i]
    BY <1>10, TheEntry
  <2>3. At(list, list[m + i - 1].id) = list[m + i - 1]
    BY <1>2, <1>6, TheEntry
  <2> QED
    BY <1>6, <2>1, <2>2, <2>3
<1> QED
  BY <1>10, <1>11, <1>12 DEF c

LEMMA OneIs ==
  ASSUME NEW t \in Task, IsFiniteSet(t.deps)
  PROVE  <<t>> \in Lists /\ Ids(<<t>>) = {t.id} /\ At(<<t>>, t.id) = t
<1>1. <<t>> \in Seq(Task) /\ DOMAIN <<t>> = {1} /\ <<t>>[1] = t
  OBVIOUS
<1>2. <<t>> \in Lists
  BY <1>1 DEF Lists, FileLists, Unique, FiniteDeps
<1>3. Ids(<<t>>) = {t.id}
  BY <1>1 DEF Ids
<1>4. At(<<t>>, <<t>>[1].id) = <<t>>[1]
  BY <1>1, <1>2, TheEntry
<1> QED
  BY <1>1, <1>2, <1>3, <1>4

\* A new task has an id that no task has or depends on; the others stay.
LEMMA AddIs ==
  ASSUME NEW list \in Lists, NEW title \in Title,
         NEW deps \in SUBSET (Nat \ {0}), IsFiniteSet(deps), NEW after
  PROVE  LET n == Largest(list) + 1
             r == AddTask(list, title, deps, after)
         IN  /\ r \in Lists /\ Ids(r) = Ids(list) \cup {n} /\ n \notin Named(list)
             /\ \A t \in Ids(list) : At(r, t) = At(list, t)
             /\ At(r, n) = [id |-> n, title |-> title, deps |-> deps,
                            status |-> "pending"]
<1> DEFINE n == Largest(list) + 1
           new == [id |-> n, title |-> title, deps |-> deps, status |-> "pending"]
           p == Position(list, after)
           a == SubSeq(list, 1, p)
           b == SubSeq(list, p + 1, Len(list))
<1>1. list \in FileLists /\ list \in Seq(Task)
  BY DEF Lists, FileLists
<1>2. n \in Nat \ {0} /\ n \notin Named(list) /\ n \notin Ids(list)
  <2>1. Largest(list) \in Nat /\ \A t \in Named(list) : t \in Nat /\ t <= Largest(list)
    BY <1>1, NewId
  <2>2. n \notin Named(list)
    BY <2>1
  <2> QED
    BY <2>1, <2>2 DEF Named
<1> HIDE DEF n
<1>3. new \in Task /\ IsFiniteSet(new.deps)
  BY <1>2 DEF Task, Status
<1>4. <<new>> \in Lists /\ Ids(<<new>>) = {n} /\ At(<<new>>, n) = new
  BY <1>3, OneIs
<1> HIDE DEF new
<1>5. CASE ~Has(list, after)
  <2>1. AddTask(list, title, deps, after) = list \o <<new>>
    BY <1>1, <1>3, <1>5, AppendIsConcat DEF AddTask, n, new
  <2>2. Ids(list) \cap Ids(<<new>>) = {}
    BY <1>2, <1>4
  <2>3. /\ list \o <<new>> \in Lists
        /\ Ids(list \o <<new>>) = Ids(list) \cup Ids(<<new>>)
        /\ \A t \in Ids(list) : At(list \o <<new>>, t) = At(list, t)
        /\ \A t \in Ids(<<new>>) : At(list \o <<new>>, t) = At(<<new>>, t)
    BY <1>4, <2>2, Joined
  <2> QED
    BY <1>2, <1>4, <2>1, <2>3 DEF n, new
<1>6. CASE Has(list, after)
  <2>1. p \in DOMAIN list /\ DOMAIN list = 1 .. Len(list) /\ Len(list) \in Nat
    BY <1>1, <1>6, HasEntry, LenProperties DEF Has
  <2>2. p \in 0 .. Len(list) /\ p + 1 \in 1 .. Len(list) + 1 /\ (p + 1) - 1 = p
        /\ 1 \in 1 .. Len(list) + 1 /\ Len(list) \in 0 .. Len(list)
    BY <2>1
  <2>3. AddTask(list, title, deps, after) = (a \o <<new>>) \o b
    BY <1>6, <2>2 DEF AddTask, InsertAt, n, new
  <2> HIDE DEF p
  <2>4. /\ a \in Lists /\ Ids(a) = {list[i].id : i \in 1 .. p}
        /\ \A t \in Ids(a) : At(a, t) = At(list, t)
    BY <2>2, CutIs
  <2>5. /\ b \in Lists /\ Ids(b) = {list[i].id : i \in p + 1 .. Len(list)}
        /\ \A t \in Ids(b) : At(b, t) = At(list, t)
    BY <2>2, CutIs
  <2> HIDE DEF a, b
  <2>6. Ids(a) \cup Ids(b) = Ids(list)
    <3>1. 1 .. p \cup (p + 1 .. Len(list)) = DOMAIN list
      BY <2>1
    <3> QED
      BY <2>4, <2>5, <3>1 DEF Ids
  <2>7. Ids(a) \cap Ids(b) = {}
    <3> SUFFICES ASSUME NEW i \in 1 .. p, NEW j \in p + 1 .. Len(list),
                        list[i].id = list[j].id
                 PROVE  FALSE
      BY <2>4, <2>5
    <3>1. i \in DOMAIN list /\ j \in DOMAIN list /\ i # j
      BY <2>1
    <3> QED
      BY <3>1 DEF Lists, Unique
  <2>8. /\ a \o <<new>> \in Lists
        /\ Ids(a \o <<new>>) = Ids(a) \cup Ids(<<new>>)
        /\ \A t \in Ids(a) : At(a \o <<new>>, t) = At(a, t)
        /\ \A t \in Ids(<<new>>) : At(a \o <<new>>, t) = At(<<new>>, t)
    <3>1. Ids(a) \cap Ids(<<new>>) = {}
      BY <1>2, <1>4, <2>6
    <3> QED
      BY <1>4, <2>4, <3>1, Joined
  <2> DEFINE c == a \o <<new>>
  <2> HIDE DEF c
  <2>9. /\ c \o b \in Lists /\ Ids(c \o b) = Ids(c) \cup Ids(b)
        /\ \A t \in Ids(c) : At(c \o b, t) = At(c, t)
        /\ \A t \in Ids(b) : At(c \o b, t) = At(b, t)
    <3>1. c \in Lists /\ Ids(c) \cap Ids(b) = {}
      BY <1>2, <1>4, <2>6, <2>7, <2>8 DEF c
    <3> QED
      BY <2>5, <3>1, Joined
  <2>10. n \in Ids(c) /\ At(c, n) = new
    BY <1>4, <2>8 DEF c
  <2>11. \A t \in Ids(list) : At(c \o b, t) = At(list, t)
    BY <2>4, <2>5, <2>6, <2>8, <2>9 DEF c
  <2>12. Ids(c \o b) = Ids(list) \cup {n}
    BY <1>4, <2>6, <2>8, <2>9 DEF c
  <2> QED
    BY <1>2, <2>3, <2>9, <2>10, <2>11, <2>12 DEF n, new, c
<1> QED
  BY <1>5, <1>6

\* Changing one entry, its id kept.
LEMMA OneChanged ==
  ASSUME NEW list \in Lists, NEW t \in Ids(list), NEW new \in Task,
         new.id = t, IsFiniteSet(new.deps)
  PROVE  LET r == [list EXCEPT ![Position(list, t)] = new]
         IN  /\ r \in Lists /\ Ids(r) = Ids(list) /\ At(r, t) = new
             /\ \A u \in Ids(list) \ {t} : At(r, u) = At(list, u)
<1> DEFINE p == Position(list, t)
           r == [list EXCEPT ![p] = new]
<1>1. list \in Seq(Task) /\ DOMAIN list = 1 .. Len(list)
  BY LenProperties DEF Lists, FileLists
<1>2. p \in DOMAIN list /\ list[p].id = t
  BY HasEntry
<1>3. r \in Seq(Task) /\ DOMAIN r = DOMAIN list
  BY <1>1, <1>2, ExceptSeq
<1>4. \A i \in DOMAIN list : r[i] = IF i = p THEN new ELSE list[i]
  BY <1>2
<1> HIDE DEF p, r
<1>5. FiniteDeps(r) /\ \A i \in DOMAIN list : r[i].id = list[i].id
  BY <1>2, <1>3, <1>4 DEF FiniteDeps, Lists, FileLists
<1>6. /\ r \in Lists /\ Ids(r) = Ids(list)
      /\ \A u \in Ids(list) : At(r, u) = r[Position(list, u)]
  BY <1>3, <1>5, SameIds
<1>7. ASSUME NEW u \in Ids(list), u # t PROVE At(r, u) = At(list, u)
  <2>1. /\ Position(list, u) \in DOMAIN list /\ list[Position(list, u)].id = u
        /\ At(list, u) = list[Position(list, u)]
    BY HasEntry
  <2> QED
    BY <1>2, <1>4, <1>6, <1>7, <2>1
<1>8. At(r, t) = new
  BY <1>2, <1>4, <1>6 DEF p
<1> QED
  BY <1>6, <1>7, <1>8 DEF p, r

LEMMA MarkedIs ==
  ASSUME NEW list \in Lists, NEW t \in Ids(list), NEW status \in Status
  PROVE  LET r == Marked(list, t, status)
         IN  /\ r \in Lists /\ Ids(r) = Ids(list)
             /\ At(r, t) = [At(list, t) EXCEPT !.status = status]
             /\ \A u \in Ids(list) \ {t} : At(r, u) = At(list, u)
<1> DEFINE p == Position(list, t)
           new == [list[p] EXCEPT !.status = status]
<1>1. p \in DOMAIN list /\ At(list, t) = list[p]
  BY HasEntry
<1>2. Marked(list, t, status) = [list EXCEPT ![p] = new]
  BY <1>1 DEF Marked
<1>3. new \in Task /\ new.id = t /\ new.deps = list[p].deps
  BY <1>1, AnEntry DEF Task
<1>4. IsFiniteSet(new.deps)
  BY <1>1, <1>3, AnEntry
<1>5. new = [At(list, t) EXCEPT !.status = status]
  BY <1>1
<1> HIDE DEF new
<1>6. LET r == [list EXCEPT ![p] = new]
      IN  /\ r \in Lists /\ Ids(r) = Ids(list) /\ At(r, t) = new
          /\ \A u \in Ids(list) \ {t} : At(r, u) = At(list, u)
  BY <1>3, <1>4, OneChanged, Zenon
<1> QED
  BY <1>2, <1>5, <1>6, Zenon

LEMMA RenamedIs ==
  ASSUME NEW list \in Lists, NEW t \in Ids(list), NEW title \in Title
  PROVE  LET r == Renamed(list, t, title)
         IN  /\ r \in Lists /\ Ids(r) = Ids(list)
             /\ \A u \in Ids(list) : /\ At(r, u).deps = At(list, u).deps
                                     /\ At(r, u).status = At(list, u).status
<1> DEFINE p == Position(list, t)
           new == [list[p] EXCEPT !.title = title]
<1>1. p \in DOMAIN list /\ At(list, t) = list[p]
  BY HasEntry
<1>2. Renamed(list, t, title) = [list EXCEPT ![p] = new]
  BY <1>1 DEF Renamed
<1>3. /\ new \in Task /\ new.id = t /\ new.deps = list[p].deps
      /\ new.status = list[p].status
  BY <1>1, AnEntry DEF Task
<1>4. IsFiniteSet(new.deps)
  BY <1>1, <1>3, AnEntry
<1> HIDE DEF new
<1>5. LET r == [list EXCEPT ![p] = new]
      IN  /\ r \in Lists /\ Ids(r) = Ids(list) /\ At(r, t) = new
          /\ \A u \in Ids(list) \ {t} : At(r, u) = At(list, u)
  BY <1>3, <1>4, OneChanged, Zenon
<1>6. LET r == Renamed(list, t, title)
      IN  /\ r \in Lists /\ Ids(r) = Ids(list) /\ At(r, t) = new
          /\ \A u \in Ids(list) \ {t} : At(r, u) = At(list, u)
  BY <1>2, <1>5, Zenon
<1>7. new.deps = At(list, t).deps /\ new.status = At(list, t).status
  BY <1>1, <1>3
<1> HIDE DEF p
<1> QED
  BY <1>6, <1>7

\* Removing a task: the others keep their statuses and lose dependencies at
\* most, with force the one on the task removed.
LEMMA RemoveIs ==
  ASSUME NEW list \in Lists, NEW t \in Ids(list),
         NEW delete \in BOOLEAN, NEW force \in BOOLEAN
  PROVE  LET r == RemoveTask(list, t, delete, force)
         IN  /\ r \in Lists
             /\ Ids(r) = {u \in Ids(list) : delete => u # t}
             /\ \A u \in Ids(r) :
                  /\ At(r, u).deps \subseteq At(list, u).deps
                  /\ force => t \notin At(r, u).deps
                  /\ At(r, u).status \in {At(list, u).status, "skipped"}
<1> DEFINE w == Without(list, t)
           free == IF force THEN w ELSE list
           p == Position(list, t)
<1>1. list \in Seq(Task) /\ DOMAIN list = 1 .. Len(list) /\ Len(list) \in Nat
  BY LenProperties DEF Lists, FileLists
<1>2. /\ w \in Lists /\ Ids(w) = Ids(list)
      /\ \A u \in Ids(list) :
           /\ Position(w, u) = Position(list, u)
           /\ At(w, u) = [At(list, u) EXCEPT !.deps = @ \ {t}]
  <2>1. \A i \in DOMAIN list : list[i] \in Task /\ IsFiniteSet(list[i].deps)
    BY <1>1, ElementOfSeq DEF Lists, FileLists, FiniteDeps
  <2>2. \A i \in DOMAIN list : [list[i] EXCEPT !.deps = @ \ {t}] \in Task
    BY <2>1 DEF Task
  <2>3. w = [i \in 1 .. Len(list) |-> [list[i] EXCEPT !.deps = @ \ {t}]]
    BY <1>1 DEF Without
  <2>4. w \in Seq(Task) /\ DOMAIN w = DOMAIN list
    BY <1>1, <2>2, <2>3, IsASeq
  <2>5. \A i \in DOMAIN list : w[i] = [list[i] EXCEPT !.deps = @ \ {t}]
    BY <1>1, <2>3
  <2> HIDE DEF w
  <2>6. \A i \in DOMAIN list : w[i].id = list[i].id /\ w[i].deps = list[i].deps \ {t}
    BY <2>1, <2>5 DEF Task
  <2>7. FiniteDeps(w) /\ \A i \in DOMAIN list : w[i].id = list[i].id
    <3>1. \A i \in DOMAIN list : IsFiniteSet(list[i].deps \ {t})
      BY <2>1, FS_RemoveElement
    <3> QED
      BY <2>4, <2>6, <3>1 DEF FiniteDeps
  <2>8. /\ w \in Lists /\ Ids(w) = Ids(list)
        /\ \A u \in Ids(list) : /\ Position(w, u) = Position(list, u)
                                /\ At(w, u) = w[Position(list, u)]
    BY <2>4, <2>7, SameIds, Zenon
  <2>9. \A u \in Ids(list) : At(w, u) = [At(list, u) EXCEPT !.deps = @ \ {t}]
    <3> SUFFICES ASSUME NEW u \in Ids(list)
                 PROVE  At(w, u) = [At(list, u) EXCEPT !.deps = @ \ {t}]
      OBVIOUS
    <3>1. /\ Position(list, u) \in DOMAIN list
          /\ At(list, u) = list[Position(list, u)]
      BY HasEntry
    <3> QED
      BY <2>5, <2>8, <3>1
  <2> QED
    BY <2>8, <2>9
<1>3. /\ free \in Lists /\ Ids(free) = Ids(list) /\ Position(free, t) = p
      /\ \A u \in Ids(list) :
           /\ At(free, u).deps \subseteq At(list, u).deps
           /\ force => t \notin At(free, u).deps
           /\ At(free, u).status = At(list, u).status
  <2>1. \A u \in Ids(list) : At(list, u) \in Task
    BY AnEntry
  <2>2. \A u \in Ids(list) : /\ At(w, u).deps = At(list, u).deps \ {t}
                            /\ At(w, u).status = At(list, u).status
    BY <1>2, <2>1 DEF Task
  <2> QED
    BY <1>2, <2>2
<1> HIDE DEF w, free
<1>4. CASE ~delete
  <2>1. RemoveTask(list, t, delete, force) = Marked(free, t, "skipped")
    BY <1>4 DEF RemoveTask, free, w
  <2>2. /\ Marked(free, t, "skipped") \in Lists
        /\ Ids(Marked(free, t, "skipped")) = Ids(free)
        /\ At(Marked(free, t, "skipped"), t) = [At(free, t) EXCEPT !.status = "skipped"]
        /\ \A u \in Ids(free) \ {t} : At(Marked(free, t, "skipped"), u) = At(free, u)
    <3>1. t \in Ids(free) /\ "skipped" \in Status
      BY <1>3 DEF Status
    <3> QED
      BY <1>3, <3>1, MarkedIs
  <2>3. At(free, t) \in Task
    BY <1>3, AnEntry
  <2>4. /\ [At(free, t) EXCEPT !.status = "skipped"].deps = At(free, t).deps
        /\ [At(free, t) EXCEPT !.status = "skipped"].status = "skipped"
    BY <2>3 DEF Task
  <2> QED
    BY <1>3, <1>4, <2>1, <2>2, <2>4
<1>5. CASE delete
  <2> DEFINE a == SubSeq(free, 1, p - 1)
             b == SubSeq(free, p + 1, Len(free))
  <2>1. RemoveTask(list, t, delete, force) = a \o b
    BY <1>5 DEF RemoveTask, RemoveAt, free, w
  <2>2. /\ p \in DOMAIN free /\ DOMAIN free = 1 .. Len(free) /\ Len(free) \in Nat
        /\ free[p].id = t
    BY <1>3, HasEntry, LenProperties DEF Lists, FileLists
  <2>3. p - 1 \in 0 .. Len(free) /\ p + 1 \in 1 .. Len(free) + 1
        /\ 1 \in 1 .. Len(free) + 1 /\ Len(free) \in 0 .. Len(free)
    BY <2>2
  <2> HIDE DEF p
  <2>4. /\ a \in Lists /\ Ids(a) = {free[i].id : i \in 1 .. p - 1}
        /\ \A u \in Ids(a) : At(a, u) = At(free, u)
    BY <1>3, <2>3, CutIs
  <2>5. /\ b \in Lists /\ Ids(b) = {free[i].id : i \in p + 1 .. Len(free)}
        /\ \A u \in Ids(b) : At(b, u) = At(free, u)
    BY <1>3, <2>3, CutIs
  <2> HIDE DEF a, b
  <2>6. \A i, j \in DOMAIN free : free[i].id = free[j].id => i = j
    BY <1>3 DEF Lists, Unique
  <2>7. Ids(a) \cap Ids(b) = {}
    <3> SUFFICES ASSUME NEW i \in 1 .. p - 1, NEW j \in p + 1 .. Len(free),
                        free[i].id = free[j].id
                 PROVE  FALSE
      BY <2>4, <2>5
    <3>1. i \in DOMAIN free /\ j \in DOMAIN free /\ i # j
      BY <2>2
    <3> QED
      BY <2>6, <3>1
  <2>8. Ids(a) \cup Ids(b) = Ids(free) \ {t}
    <3>1. (1 .. p - 1) \cup (p + 1 .. Len(free)) = DOMAIN free \ {p}
      BY <2>2
    <3>2. \A i \in DOMAIN free : free[i].id = t <=> i = p
      BY <2>2, <2>6
    <3>3. \A u : u \in Ids(free) \ {t} <=> \E i \in DOMAIN free \ {p} : free[i].id = u
      BY <3>2 DEF Ids
    <3>4. \A u : u \in Ids(a) \cup Ids(b) <=>
                   \E i \in (1 .. p - 1) \cup (p + 1 .. Len(free)) : free[i].id = u
      BY <2>4, <2>5
    <3> QED
      BY <3>1, <3>3, <3>4
  <2>9. /\ a \o b \in Lists /\ Ids(a \o b) = Ids(free) \ {t}
        /\ \A u \in Ids(a \o b) : At(a \o b, u) = At(free, u)
    BY <2>4, <2>5, <2>7, <2>8, Joined
  <2> QED
    BY <1>3, <1>5, <2>1, <2>9
<1> QED
  BY <1>4, <1>5

\* Reordering only reorders.
LEMMA ReorderedIs ==
  ASSUME NEW list \in Lists, NEW front \in Seq(Nat),
         \A i \in DOMAIN front : front[i] \in Ids(list),
         \A i, j \in DOMAIN front : front[i] = front[j] => i = j
  PROVE  LET r == Reordered(list, front)
         IN  /\ r \in Lists /\ Ids(r) = Ids(list)
             /\ \A t \in Ids(list) : At(r, t) = At(list, t)
<1> DEFINE a == [i \in DOMAIN front |-> At(list, front[i])]
           K == {i \in DOMAIN list : list[i].id \notin Range(front)}
           b == Kept(list, K)
<1>1. DOMAIN front = 1 .. Len(front) /\ Len(front) \in Nat
  BY LenProperties
<1>2. \A i \in DOMAIN front : /\ At(list, front[i]) \in Task
                              /\ At(list, front[i]).id = front[i]
                              /\ IsFiniteSet(At(list, front[i]).deps)
  BY AnEntry
<1>3. a \in Seq(Task) /\ DOMAIN a = DOMAIN front
  BY <1>1, <1>2, IsASeq
<1>4. \A i \in DOMAIN a : a[i] = At(list, front[i]) /\ a[i].id = front[i]
  BY <1>2
<1> HIDE DEF a
<1>5. a \in Lists
  BY <1>2, <1>3, <1>4 DEF Lists, FileLists, Unique, FiniteDeps
<1>6. Ids(a) = Range(front)
  BY <1>3, <1>4 DEF Ids, Range
<1>7. \A t \in Ids(a) : At(a, t) = At(list, t)
  <2> SUFFICES ASSUME NEW t \in Ids(a) PROVE At(a, t) = At(list, t)
    OBVIOUS
  <2>1. PICK i \in DOMAIN a : a[i].id = t
    BY DEF Ids
  <2>2. At(a, a[i].id) = a[i]
    BY <1>5, TheEntry
  <2> QED
    BY <1>4, <2>1, <2>2
<1>8. /\ b \in Lists /\ Ids(b) = {list[i].id : i \in K}
      /\ \A t \in Ids(b) : At(b, t) = At(list, t)
  BY KeptIs
<1> HIDE DEF b
<1>9. Ids(a) \cap Ids(b) = {} /\ Ids(a) \cup Ids(b) = Ids(list)
  <2>1. Range(front) \subseteq Ids(list)
    BY DEF Range
  <2>2. Ids(b) = Ids(list) \ Range(front)
    BY <1>8 DEF Ids
  <2> QED
    BY <1>6, <2>1, <2>2
<1>10. Reordered(list, front) = a \o b
  BY DEF Reordered, a, b
<1>11. /\ a \o b \in Lists /\ Ids(a \o b) = Ids(a) \cup Ids(b)
       /\ \A t \in Ids(a) : At(a \o b, t) = At(a, t)
       /\ \A t \in Ids(b) : At(a \o b, t) = At(b, t)
  BY <1>5, <1>8, <1>9, Joined
<1>12. \A t \in Ids(list) : At(a \o b, t) = At(list, t)
  BY <1>7, <1>8, <1>9, <1>11
<1> QED
  BY <1>9, <1>10, <1>11, <1>12

-----------------------------------------------------------------------------
(* applyWorkflow *)

\* Renewing every entry of a list, the ids kept.
LEMMA EachChanged ==
  ASSUME NEW list \in Lists, NEW new, DOMAIN new = DOMAIN list,
         \A i \in DOMAIN list : /\ new[i] \in Task /\ new[i].id = list[i].id
                               /\ IsFiniteSet(new[i].deps),
         new = [i \in DOMAIN list |-> new[i]]
  PROVE  /\ new \in Lists /\ Ids(new) = Ids(list)
         /\ \A i \in DOMAIN list : At(new, list[i].id) = new[i]
<1>1. DOMAIN list = 1 .. Len(list) /\ Len(list) \in Nat
  BY LenProperties DEF Lists, FileLists
<1>2. [i \in 1 .. Len(list) |-> new[i]] \in Seq(Task)
  BY <1>1, IsASeq
<1>3. new \in Seq(Task)
  BY <1>1, <1>2
<1>4. FiniteDeps(new)
  BY DEF FiniteDeps
<1>5. new \in Lists /\ Ids(new) = Ids(list)
  BY <1>3, <1>4, SameIds
<1>6. \A i \in DOMAIN list : At(new, new[i].id) = new[i]
  BY <1>5, TheEntry
<1> QED
  BY <1>5, <1>6

\* An entry of the file becomes a new task, or what the task was, or with the
\* dependencies of the file, which it may only get while it can be modified.
LEMMA EntryIs ==
  ASSUME NEW list \in Lists, NEW force \in BOOLEAN,
         NEW new \in Task, IsFiniteSet(new.deps)
  PROVE  LET e == Entry(list, force, new)
         IN  /\ e \in Task /\ e.id = new.id /\ IsFiniteSet(e.deps)
             /\ new.id \notin Ids(list) => e.deps = new.deps
             /\ new.id \in Ids(list) =>
                  /\ e.status = At(list, new.id).status
                  /\ \/ e.deps = new.deps
                     \/ /\ e.deps = At(list, new.id).deps
                        /\ e.status \notin Modifiable
<1> DEFINE e == Entry(list, force, new)
           old == At(list, new.id)
<1>1. CASE new.id \notin Ids(list)
  <2>1. e = [id |-> new.id, title |-> new.title, deps |-> new.deps,
             status |-> "pending"]
    BY <1>1 DEF Entry, Has, Added
  <2> QED
    BY <1>1, <2>1 DEF Task, Status
<1>2. CASE new.id \in Ids(list)
  <2>1. /\ old \in Task /\ old.id = new.id /\ IsFiniteSet(old.deps)
    BY <1>2, AnEntry
  <2>2. e = IF Changed(old, new) /\ (force \/ old.status \in Modifiable)
            THEN MergeTask(old, new) ELSE old
    BY <1>2 DEF Entry, Has
  <2> HIDE DEF e, old
  <2>3. CASE Changed(old, new) /\ (force \/ old.status \in Modifiable)
    <3>1. e = [old EXCEPT !.title = new.title, !.deps = new.deps]
      BY <2>2, <2>3 DEF MergeTask
    <3>2. /\ e \in Task /\ e.id = new.id /\ e.deps = new.deps
          /\ e.status = old.status
      BY <2>1, <3>1 DEF Task
    <3> QED
      BY <1>2, <3>2 DEF e, old
  <2>4. CASE ~(Changed(old, new) /\ (force \/ old.status \in Modifiable))
    <3>1. e = old
      BY <2>2, <2>4
    <3>2. old.deps = new.deps \/ old.status \notin Modifiable
      BY <2>4 DEF Changed
    <3> QED
      BY <1>2, <2>1, <3>1, <3>2 DEF e, old
  <2> QED
    BY <2>3, <2>4
<1> QED
  BY <1>1, <1>2

LEMMA LeftOutIs ==
  ASSUME NEW list \in Lists, NEW file, NEW force \in BOOLEAN
  PROVE  LET b == LeftOut(list, file, force)
         IN  /\ b \in Lists /\ Ids(b) = Ids(list) \ Ids(file)
             /\ \A t \in Ids(b) : /\ At(b, t).status = "skipped"
                                  /\ At(b, t).deps \subseteq At(list, t).deps
<1> DEFINE gone == Ids(list) \ Ids(file)
           K == {i \in DOMAIN list : list[i].id \in gone}
           absent == Kept(list, K)
           Skip(t) == [t EXCEPT !.status = "skipped",
                                !.deps = IF force THEN @ \ gone ELSE @]
           b == LeftOut(list, file, force)
<1>1. /\ absent \in Lists /\ Ids(absent) = {list[i].id : i \in K}
      /\ \A t \in Ids(absent) : At(absent, t) = At(list, t)
  BY KeptIs
<1>2. Ids(absent) = gone
  BY <1>1 DEF Ids
<1>3. b = [i \in DOMAIN absent |-> Skip(absent[i])]
  BY DEF LeftOut
<1> HIDE DEF absent, b
<1>4. \A i \in DOMAIN absent : absent[i] \in Task /\ IsFiniteSet(absent[i].deps)
  BY <1>1, TaskParts DEF Lists, FileLists, FiniteDeps
<1>5. \A i \in DOMAIN absent :
        /\ b[i] \in Task /\ b[i].id = absent[i].id /\ b[i].status = "skipped"
        /\ b[i].deps = IF force THEN absent[i].deps \ gone ELSE absent[i].deps
  BY <1>3, <1>4 DEF Task, Status
<1>6. \A i \in DOMAIN absent : IsFiniteSet(b[i].deps)
  <2>1. \A i \in DOMAIN absent : IsFiniteSet(absent[i].deps \ gone)
    BY <1>4, FS_Difference
  <2> QED
    BY <1>4, <1>5, <2>1
<1>7. /\ b \in Lists /\ Ids(b) = Ids(absent)
      /\ \A i \in DOMAIN absent : At(b, absent[i].id) = b[i]
  <2>1. DOMAIN b = DOMAIN absent /\ b = [i \in DOMAIN absent |-> b[i]]
    BY <1>3
  <2>2. \A i \in DOMAIN absent : /\ b[i] \in Task /\ b[i].id = absent[i].id
                                 /\ IsFiniteSet(b[i].deps)
    BY <1>5, <1>6
  <2> QED
    BY <1>1, <2>1, <2>2, EachChanged, Zenon
<1>8. ASSUME NEW t \in Ids(b)
      PROVE  At(b, t).status = "skipped" /\ At(b, t).deps \subseteq At(list, t).deps
  <2>1. PICK i \in DOMAIN absent : absent[i].id = t
    BY <1>7, <1>8 DEF Ids
  <2>2. At(list, t) = absent[i]
    BY <1>1, <2>1, TheEntry DEF Ids
  <2> QED
    BY <1>5, <1>7, <2>1, <2>2
<1> QED
  BY <1>2, <1>7, <1>8 DEF b

\* The merged list has the tasks of the file and those left out of it, which
\* are skipped.
LEMMA AppliedIs ==
  ASSUME NEW list \in Lists, NEW file \in Lists, NEW force \in BOOLEAN
  PROVE  LET r == Applied(list, file, force)
         IN  /\ r \in Lists /\ Ids(r) = Ids(file) \cup Ids(list)
             /\ \A t \in Ids(file) : At(r, t) = Entry(list, force, At(file, t))
             /\ \A t \in Ids(list) \ Ids(file) :
                  /\ At(r, t).status = "skipped"
                  /\ At(r, t).deps \subseteq At(list, t).deps
<1> DEFINE a == [i \in DOMAIN file |-> Entry(list, force, file[i])]
           b == LeftOut(list, file, force)
<1>1. \A i \in DOMAIN file : file[i] \in Task /\ IsFiniteSet(file[i].deps)
  BY TaskParts DEF Lists, FileLists, FiniteDeps
<1>2. /\ a \in Lists /\ Ids(a) = Ids(file)
      /\ \A i \in DOMAIN file : At(a, file[i].id) = a[i]
  <2>1. \A i \in DOMAIN file : /\ a[i] \in Task /\ a[i].id = file[i].id
                               /\ IsFiniteSet(a[i].deps)
    BY <1>1, EntryIs
  <2>2. DOMAIN a = DOMAIN file /\ a = [i \in DOMAIN file |-> a[i]]
    OBVIOUS
  <2> HIDE DEF a
  <2> QED
    BY <2>1, <2>2, EachChanged, Zenon
<1>3. \A t \in Ids(file) : At(a, t) = Entry(list, force, At(file, t))
  <2> SUFFICES ASSUME NEW t \in Ids(file)
               PROVE  At(a, t) = Entry(list, force, At(file, t))
    OBVIOUS
  <2>1. PICK i \in DOMAIN file : file[i].id = t
    BY DEF Ids
  <2>2. At(file, t) = file[i]
    BY <2>1, TheEntry
  <2>3. a[i] = Entry(list, force, file[i])
    OBVIOUS
  <2> HIDE DEF a
  <2> QED
    BY <1>2, <2>1, <2>2, <2>3
<1> HIDE DEF a
<1>4. /\ b \in Lists /\ Ids(b) = Ids(list) \ Ids(file)
      /\ \A t \in Ids(b) : /\ At(b, t).status = "skipped"
                           /\ At(b, t).deps \subseteq At(list, t).deps
  BY LeftOutIs
<1> HIDE DEF b
<1>5. /\ a \o b \in Lists /\ Ids(a \o b) = Ids(a) \cup Ids(b)
      /\ \A t \in Ids(a) : At(a \o b, t) = At(a, t)
      /\ \A t \in Ids(b) : At(a \o b, t) = At(b, t)
  BY <1>2, <1>4, Joined
<1>6. Ids(a \o b) = Ids(file) \cup Ids(list)
  BY <1>2, <1>4, <1>5
<1>7. Applied(list, file, force) = a \o b
  BY DEF Applied, a, b
<1> QED
  BY <1>2, <1>3, <1>4, <1>5, <1>6, <1>7

-----------------------------------------------------------------------------
(* The planner's answer and the replanner *)

Planned == [title : Title, after : SUBSET Title]

LEMMA AnswerIs ==
  ASSUME NEW answer \in Answers
  PROVE  answer \in Seq(Planned) /\ DOMAIN answer = 1 .. Len(answer)
<1>1. CASE \E a \in Planned : answer = <<a>>
  BY <1>1
<1>2. CASE answer \in Planned \X Planned
  <2>1. PICK a \in Planned, b \in Planned : answer = <<a, b>>
    BY <1>2
  <2> QED
    BY <2>1
<1> QED
  BY <1>1, <1>2 DEF Answers, Planned

\* An accepted answer becomes a list with the ids that follow base; a task
\* depends on earlier ones, and on itself only when it names its own title.
LEMMA PlannerOutputIs ==
  ASSUME NEW answer \in Seq(Planned), Accepted(answer), NEW base \in Nat
  PROVE  LET plan == PlannerOutput(answer, base)
         IN  /\ plan \in Lists /\ Len(plan) \in Nat
             /\ Ids(plan) = base + 1 .. base + Len(plan)
             /\ DOMAIN answer = 1 .. Len(plan) /\ DOMAIN plan = 1 .. Len(plan)
             /\ \A i \in 1 .. Len(plan) :
                  /\ plan[i].id = base + i
                  /\ plan[i].deps \subseteq base + 1 .. base + i
                  /\ base + i \in plan[i].deps => answer[i].title \in answer[i].after
<1> DEFINE plan == PlannerOutput(answer, base)
           N == Len(answer)
           Deps(i) == {base + LastOf(answer, i, d) : d \in answer[i].after}
<1>1. /\ answer \in Seq(Planned) /\ DOMAIN answer = 1 .. N /\ N \in Nat
      /\ \A i \in 1 .. N : answer[i].title \in Title
  <2>1. answer \in Seq(Planned) /\ DOMAIN answer = 1 .. N
    BY LenProperties
  <2>2. N \in Nat
    BY <2>1, LenProperties
  <2>3. \A i \in 1 .. N : answer[i] \in Planned
    BY <2>1, ElementOfSeq
  <2>4. \A i \in 1 .. N : answer[i].title \in Title
    BY <2>3 DEF Planned
  <2> QED
    BY <2>1, <2>2, <2>4
<1>2. ASSUME NEW i \in 1 .. N, NEW d \in answer[i].after
      PROVE  LastOf(answer, i, d) \in 1 .. i /\ answer[LastOf(answer, i, d)].title = d
  <2> DEFINE S == {j \in 1 .. i : answer[j].title = d}
  <2>1. i \in Nat
    BY <1>1
  <2>2. S # {}
    BY <1>1, <1>2 DEF Accepted
  <2>3. S \in SUBSET Nat /\ IsFiniteSet(S)
    <3>1. IsFiniteSet(1 .. i) /\ S \in SUBSET (1 .. i)
      BY <2>1, FS_Interval
    <3> QED
      BY <2>1, <3>1, FS_Subset
  <2> HIDE DEF S
  <2>4. Max(S) \in S /\ \A k \in S : k <= Max(S)
    BY <2>2, <2>3, LargestOf
  <2>5. /\ Max(S) \in 1 .. i /\ answer[Max(S)].title = d
        /\ \A k \in Max(S) + 1 .. i : answer[k].title # d
    <3>1. Max(S) \in 1 .. i /\ answer[Max(S)].title = d
      BY <2>4 DEF S
    <3>2. ASSUME NEW k \in Max(S) + 1 .. i, answer[k].title = d PROVE FALSE
      <4>1. k \in 1 .. i /\ ~(k <= Max(S))
        BY <2>1, <3>1
      <4>2. k \in S
        BY <3>2, <4>1 DEF S
      <4> QED
        BY <2>4, <4>1, <4>2
    <3> QED
      BY <3>1, <3>2
  <2> QED
    BY <2>5, Zenon DEF LastOf
<1>3. \A i \in 1 .. N : Deps(i) \in SUBSET (base + 1 .. base + i)
  BY <1>1, <1>2
<1>4. \A i \in 1 .. N : IsFiniteSet(base + 1 .. base + i)
  <2>1. \A i \in 1 .. N : base + 1 \in Int /\ base + i \in Int
    BY <1>1
  <2> QED
    BY <2>1, FS_Interval
<1>5. \A i \in 1 .. N : IsFiniteSet(Deps(i)) /\ Deps(i) \in SUBSET (Nat \ {0})
  <2>1. \A i \in 1 .. N : IsFiniteSet(Deps(i))
    BY <1>3, <1>4, FS_Subset
  <2>2. \A i \in 1 .. N : Deps(i) \in SUBSET (Nat \ {0})
    BY <1>1, <1>3
  <2> QED
    BY <2>1, <2>2
<1>6. plan = [i \in 1 .. N |-> [id |-> base + i, title |-> answer[i].title,
                               status |-> "pending", deps |-> Deps(i)]]
  BY <1>1 DEF PlannerOutput
<1> HIDE DEF plan, Deps
<1>7. \A i \in 1 .. N : [id |-> base + i, title |-> answer[i].title,
                         status |-> "pending", deps |-> Deps(i)] \in Task
  BY <1>1, <1>5 DEF Task, Status
<1>8. plan \in Seq(Task) /\ DOMAIN plan = 1 .. N
  BY <1>1, <1>6, <1>7, IsASeq
<1>9. Len(plan) = N
  BY <1>1, <1>8, LenProperties
<1>10. \A i \in 1 .. N : plan[i].id = base + i /\ plan[i].deps = Deps(i)
  BY <1>6
<1>11. Unique(plan)
  <2> SUFFICES ASSUME NEW i \in 1 .. N, NEW j \in 1 .. N, plan[i].id = plan[j].id
               PROVE  i = j
    BY <1>8 DEF Unique
  <2>1. base + i = base + j
    BY <1>10
  <2> QED
    BY <2>1
<1>12. FiniteDeps(plan)
  BY <1>5, <1>8, <1>10 DEF FiniteDeps
<1>13. Ids(plan) = base + 1 .. base + N
  <2>1. \A i \in 1 .. N : base + i \in base + 1 .. base + N
    BY <1>1
  <2>2. \A k \in base + 1 .. base + N : k - base \in 1 .. N /\ k = base + (k - base)
    BY <1>1
  <2>3. Ids(plan) \subseteq base + 1 .. base + N
    BY <1>8, <1>10, <2>1 DEF Ids
  <2>4. ASSUME NEW k \in base + 1 .. base + N PROVE k \in Ids(plan)
    <3>1. k - base \in DOMAIN plan /\ plan[k - base].id = k
      BY <1>8, <1>10, <2>2
    <3> QED
      BY <3>1 DEF Ids
  <2> QED
    BY <2>3, <2>4
<1>14. ASSUME NEW i \in 1 .. N, base + i \in Deps(i)
       PROVE  answer[i].title \in answer[i].after
  <2>1. PICK d \in answer[i].after : base + i = base + LastOf(answer, i, d)
    BY <1>14 DEF Deps
  <2>2. LastOf(answer, i, d) \in 1 .. i /\ answer[LastOf(answer, i, d)].title = d
    BY <1>2
  <2>3. LastOf(answer, i, d) = i
    BY <1>1, <2>1, <2>2
  <2> QED
    BY <2>2, <2>3
<1> QED
  BY <1>1, <1>3, <1>8, <1>9, <1>10, <1>11, <1>12, <1>13, <1>14
     DEF Lists, FileLists, plan

\* Whatever a planner answers, the tasks of an accepted plan have ids of their
\* own, name only one another, and never wait for one another, unless a task
\* names itself: processPlannerOutput looks titles up among those before.
THEOREM PlansAreOrdered ==
  ASSUME NEW answer \in Seq(Planned), Accepted(answer), NEW base \in Nat
  PROVE  LET plan == PlannerOutput(answer, base)
         IN  /\ plan \in Seq(Task) /\ Cardinality(Ids(plan)) = Len(plan)
             /\ Named(plan) = Ids(plan)
             /\ Cyclic(Ids(plan), plan)
                  => \E i \in DOMAIN answer : answer[i].title \in answer[i].after
<1> DEFINE plan == PlannerOutput(answer, base)
           N == Len(plan)
<1>1. /\ plan \in Lists /\ N \in Nat
      /\ Ids(plan) = base + 1 .. base + N
      /\ DOMAIN answer = 1 .. N /\ DOMAIN plan = 1 .. N
      /\ \A i \in 1 .. N :
           /\ plan[i].id = base + i
           /\ plan[i].deps \subseteq base + 1 .. base + i
           /\ base + i \in plan[i].deps => answer[i].title \in answer[i].after
  BY PlannerOutputIs
<1> HIDE DEF plan
<1>2. plan \in Seq(Task) /\ Cardinality(Ids(plan)) = Len(plan)
  BY <1>1, UniqueCounts DEF Lists, FileLists
<1>3. Named(plan) = Ids(plan)
  <2>1. \A i \in 1 .. N : base + 1 .. base + i \subseteq base + 1 .. base + N
    BY <1>1
  <2>2. \A i \in DOMAIN plan : plan[i].deps \subseteq Ids(plan)
    BY <1>1, <2>1
  <2> QED
    BY <2>2 DEF Named
<1>4. ASSUME Cyclic(Ids(plan), plan)
      PROVE  \E i \in DOMAIN answer : answer[i].title \in answer[i].after
  <2>1. PICK C \in (SUBSET Ids(plan)) \ {{}} : \A t \in C : At(plan, t).deps \cap C # {}
    BY <1>4 DEF Cyclic
  <2>2. C \in SUBSET Nat /\ C # {}
    BY <1>1, <2>1
  <2>3. IsFiniteSet(C)
    <3>1. base + 1 \in Int /\ base + N \in Int
      BY <1>1
    <3>2. IsFiniteSet(base + 1 .. base + N)
      BY <3>1, FS_Interval
    <3> QED
      BY <1>1, <2>1, <3>2, FS_Subset
  <2>4. PICK m \in C : \A k \in C : m <= k
    BY <2>2, <2>3, SmallestOf
  <2>5. PICK i \in 1 .. N : plan[i].id = m
    BY <1>1, <2>1 DEF Ids
  <2>6. m = base + i /\ At(plan, m) = plan[i]
    BY <1>1, <2>5, TheEntry
  <2>7. PICK d \in C : d \in plan[i].deps
    BY <2>1, <2>6
  <2>8. d \in base + 1 .. base + i /\ m <= d
    BY <1>1, <2>4, <2>7
  <2>9. d = base + i
    BY <1>1, <2>6, <2>8
  <2> QED
    BY <1>1, <2>7, <2>9
<1> QED
  BY <1>2, <1>3, <1>4 DEF plan

\* The part of a list with some statuses.
LEMMA InIs ==
  ASSUME NEW list \in Lists, NEW S
  PROVE  LET r == Kept(list, {i \in DOMAIN list : list[i].status \in S})
         IN  r \in Lists /\ Ids(r) = {t \in Ids(list) : At(list, t).status \in S}
<1> DEFINE K == {i \in DOMAIN list : list[i].status \in S}
<1>1. Kept(list, K) \in Lists /\ Ids(Kept(list, K)) = {list[i].id : i \in K}
  BY KeptIs
<1>2. {list[i].id : i \in K} = {t \in Ids(list) : At(list, t).status \in S}
  BY TheEntry DEF Ids
<1> QED
  BY <1>1, <1>2

\* The merged list has ids of its own, whatever the strategy.
LEMMA MergedIs ==
  ASSUME NEW list \in Lists, NEW plan \in Lists, NEW strategy \in Strategies,
         Len(plan) \in Nat,
         Ids(plan) \subseteq Largest(list) + 1 .. Largest(list) + Len(plan)
  PROVE  Merged(list, plan, strategy, Largest(list) + Len(plan)) \in Lists
<1> DEFINE L == Largest(list)
           base == L + Len(plan)
<1>1. L \in Nat /\ \A t \in Ids(list) : t \in Nat /\ t <= L
  BY NewId DEF Lists, Named
<1>2. Ids(list) \cap Ids(plan) = {}
  BY <1>1
<1>3. DOMAIN plan = 1 .. Len(plan) /\ plan \in Seq(Task)
  BY LenProperties DEF Lists, FileLists
<1>4. Replace(list, plan) \in Lists
  <2> DEFINE K == {i \in DOMAIN list : list[i].status = "running"}
  <2>1. Kept(list, K) \in Lists /\ Ids(Kept(list, K)) = {list[i].id : i \in K}
    BY KeptIs
  <2>2. Ids(Kept(list, K)) \subseteq Ids(list)
    BY <2>1 DEF Ids
  <2> HIDE DEF K
  <2>3. plan \o Kept(list, K) \in Lists
    BY <1>2, <2>1, <2>2, Joined
  <2> QED
    BY <2>3 DEF Replace, K
<1>5. KeepAll(list, plan) \in Lists
  <2> DEFINE K == {i \in DOMAIN plan : plan[i].title \notin Titles(list)}
  <2>1. Kept(plan, K) \in Lists /\ Ids(Kept(plan, K)) = {plan[i].id : i \in K}
    BY KeptIs
  <2>2. Ids(Kept(plan, K)) \subseteq Ids(plan)
    BY <2>1 DEF Ids
  <2> HIDE DEF K
  <2>3. list \o Kept(plan, K) \in Lists
    BY <1>2, <2>1, <2>2, Joined
  <2> QED
    BY <2>3 DEF KeepAll, K
<1>6. KeepCompleted(list, plan, base) \in Lists
  <2> DEFINE In(S) == Kept(list, {i \in DOMAIN list : list[i].status \in S})
             Renew(t) == IF t.title \in Titles(plan)
                         THEN [t EXCEPT !.deps = plan[OfTitle(plan, t.title)].deps]
                         ELSE t
             old == In({"failed", "interrupted"}) \o In({"pending"})
             K == {i \in DOMAIN plan : plan[i].title \notin Titles(old)}
             new == Kept(plan, K)
             a == In({"done", "skipped"})
             b == [i \in DOMAIN old |-> Renew(old[i])]
             c == [i \in DOMAIN new |-> [new[i] EXCEPT !.id = base + i]]
  <2>1. \A S : In(S) \in Lists /\ Ids(In(S)) = {t \in Ids(list) : At(list, t).status \in S}
    BY InIs
  <2>2. KeepCompleted(list, plan, base) = (a \o b) \o c
    BY DEF KeepCompleted
  <2> HIDE DEF In
  <2>3. /\ old \in Lists
        /\ Ids(old) = {t \in Ids(list) : At(list, t).status
                                         \in {"failed", "interrupted", "pending"}}
    <3>1. Ids(In({"failed", "interrupted"})) \cap Ids(In({"pending"})) = {}
      BY <2>1
    <3>2. /\ old \in Lists
          /\ Ids(old) = Ids(In({"failed", "interrupted"})) \cup Ids(In({"pending"}))
      BY <2>1, <3>1, Joined
    <3>3. Ids(In({"failed", "interrupted"})) \cup Ids(In({"pending"}))
            = {t \in Ids(list) : At(list, t).status
                                  \in {"failed", "interrupted", "pending"}}
      BY <2>1
    <3> QED
      BY <3>2, <3>3
  <2>4. new \in Lists
    BY KeptIs
  <2> HIDE DEF old, new, K
  <2>5. \A title \in Titles(plan) : OfTitle(plan, title) \in DOMAIN plan
    <3> SUFFICES ASSUME NEW title \in Titles(plan)
                 PROVE  OfTitle(plan, title) \in DOMAIN plan
      OBVIOUS
    <3> DEFINE S == {i \in DOMAIN plan : plan[i].title = title}
    <3>1. S # {} /\ S \in SUBSET (1 .. Len(plan)) /\ S \in SUBSET Nat
      BY <1>3 DEF Titles
    <3>2. IsFiniteSet(S)
      BY <3>1, FS_Interval, FS_Subset
    <3> HIDE DEF S
    <3>3. Max(S) \in S
      BY <3>1, <3>2, LargestOf
    <3> QED
      BY <3>3 DEF OfTitle, S
  <2>6. b \in Lists /\ Ids(b) = Ids(old)
    <3>1. \A i \in DOMAIN old : old[i] \in Task /\ IsFiniteSet(old[i].deps)
      BY <2>3, TaskParts DEF Lists, FileLists, FiniteDeps
    <3>2. \A i \in DOMAIN plan : /\ plan[i].deps \in SUBSET (Nat \ {0})
                                 /\ IsFiniteSet(plan[i].deps)
      BY TaskParts DEF Lists, FileLists, FiniteDeps
    <3>3. \A t \in Task : IsFiniteSet(t.deps) =>
            /\ Renew(t) \in Task /\ Renew(t).id = t.id
            /\ IsFiniteSet(Renew(t).deps)
      <4> SUFFICES ASSUME NEW t \in Task, IsFiniteSet(t.deps)
                   PROVE  /\ Renew(t) \in Task /\ Renew(t).id = t.id
                          /\ IsFiniteSet(Renew(t).deps)
        OBVIOUS
      <4>1. CASE t.title \in Titles(plan)
        <5>1. OfTitle(plan, t.title) \in DOMAIN plan
          BY <2>5, <4>1
        <5> DEFINE deps == plan[OfTitle(plan, t.title)].deps
        <5>2. deps \in SUBSET (Nat \ {0}) /\ IsFiniteSet(deps)
          BY <3>2, <5>1
        <5>3. Renew(t) = [t EXCEPT !.deps = deps]
          BY <4>1
        <5> HIDE DEF Renew, deps
        <5> QED
          BY <5>2, <5>3 DEF Task
      <4>2. CASE t.title \notin Titles(plan)
        BY <4>2
      <4> QED
        BY <4>1, <4>2
    <3>4. DOMAIN b = DOMAIN old /\ b = [i \in DOMAIN old |-> b[i]]
          /\ \A i \in DOMAIN old : b[i] = Renew(old[i])
      OBVIOUS
    <3> HIDE DEF b, Renew
    <3>5. \A i \in DOMAIN old : /\ b[i] \in Task /\ b[i].id = old[i].id
                                /\ IsFiniteSet(b[i].deps)
      BY <3>1, <3>3, <3>4
    <3> QED
      BY <2>3, <3>4, <3>5, EachChanged, Zenon
  <2>7. /\ c \in Lists
        /\ \A t \in Ids(c) : t \in Nat /\ t > L
    <3>1. /\ new \in Seq(Task) /\ DOMAIN new = 1 .. Len(new) /\ Len(new) \in Nat
          /\ FiniteDeps(new)
      BY <2>4, LenProperties DEF Lists, FileLists
    <3>2. \A i \in 1 .. Len(new) : new[i] \in Task
      BY <3>1, ElementOfSeq
    <3>3. \A i \in 1 .. Len(new) : base + i \in Nat \ {0} /\ base + i > L
      BY <1>1, <3>1
    <3>4. \A i \in 1 .. Len(new) : [new[i] EXCEPT !.id = base + i] \in Task
      BY <3>2, <3>3 DEF Task
    <3>5. c = [i \in 1 .. Len(new) |-> [new[i] EXCEPT !.id = base + i]]
      BY <3>1
    <3> HIDE DEF c
    <3>6. c \in Seq(Task) /\ DOMAIN c = 1 .. Len(new)
      BY <3>1, <3>4, <3>5, IsASeq
    <3>7. \A i \in 1 .. Len(new) : c[i].id = base + i /\ c[i].deps = new[i].deps
      BY <3>2, <3>5 DEF Task
    <3>8. Unique(c)
      <4> SUFFICES ASSUME NEW i \in 1 .. Len(new), NEW j \in 1 .. Len(new),
                          c[i].id = c[j].id
                   PROVE  i = j
        BY <3>6 DEF Unique
      <4>1. base + i = base + j /\ base \in Nat
        BY <1>1, <3>7
      <4> QED
        BY <4>1
    <3>9. FiniteDeps(c)
      BY <3>1, <3>6, <3>7 DEF FiniteDeps
    <3>10. \A t \in Ids(c) : t \in Nat /\ t > L
      BY <3>3, <3>6, <3>7 DEF Ids
    <3> QED
      BY <3>6, <3>8, <3>9, <3>10 DEF Lists, FileLists
  <2>8. a \in Lists /\ Ids(a) = {t \in Ids(list) : At(list, t).status \in {"done", "skipped"}}
    BY <2>1
  <2> HIDE DEF a, b, c
  <2>9. a \o b \in Lists /\ Ids(a \o b) = Ids(a) \cup Ids(b)
    <3>1. Ids(a) \cap Ids(b) = {}
      BY <2>3, <2>6, <2>8
    <3> QED
      BY <2>6, <2>8, <3>1, Joined
  <2>10. Ids(a \o b) \cap Ids(c) = {}
    <3>1. Ids(a \o b) \subseteq Ids(list)
      BY <2>3, <2>6, <2>8, <2>9
    <3> QED
      BY <1>1, <2>7, <3>1
  <2>11. (a \o b) \o c \in Lists
    BY <2>7, <2>9, <2>10, Joined
  <2> QED
    BY <2>2, <2>11
<1> QED
  BY <1>4, <1>5, <1>6 DEF Merged, Strategies

\* What is written has the ids of the merged list, and leaves done what is done.
LEMMA PersistedIs ==
  ASSUME NEW list \in Lists, NEW merged \in Lists
  PROVE  LET r == Persisted(list, merged)
         IN  /\ r \in Lists /\ Ids(r) = Ids(merged)
             /\ \A t \in Ids(r) \cap Ids(list) :
                  At(list, t).status = "done" => At(r, t).status = "done"
<1> DEFINE Old(t) == IF Has(list, t.id) THEN At(list, t.id).status ELSE "pending"
           status(t) == CASE Old(t) = "done" -> "done"
                          [] Old(t) = "running" -> "interrupted"
                          [] OTHER -> "pending"
           r == Persisted(list, merged)
<1>1. r = [i \in DOMAIN merged |-> [merged[i] EXCEPT !.status = status(merged[i])]]
  BY DEF Persisted
<1>2. \A i \in DOMAIN merged : merged[i] \in Task /\ IsFiniteSet(merged[i].deps)
  BY TaskParts DEF Lists, FileLists, FiniteDeps
<1>3. \A t : status(t) \in Status /\ (Old(t) = "done" => status(t) = "done")
  BY DEF Status
<1> HIDE DEF r, status
<1>4. \A i \in DOMAIN merged :
        /\ r[i] \in Task /\ r[i].id = merged[i].id /\ r[i].deps = merged[i].deps
        /\ r[i].status = status(merged[i])
  BY <1>1, <1>2, <1>3 DEF Task
<1>5. /\ r \in Lists /\ Ids(r) = Ids(merged)
      /\ \A i \in DOMAIN merged : At(r, merged[i].id) = r[i]
  <2>1. DOMAIN r = DOMAIN merged /\ r = [i \in DOMAIN merged |-> r[i]]
    BY <1>1
  <2>2. \A i \in DOMAIN merged : /\ r[i] \in Task /\ r[i].id = merged[i].id
                                 /\ IsFiniteSet(r[i].deps)
    BY <1>2, <1>4
  <2> QED
    BY <2>1, <2>2, EachChanged, Zenon
<1>6. ASSUME NEW t \in Ids(r) \cap Ids(list), At(list, t).status = "done"
      PROVE  At(r, t).status = "done"
  <2>1. PICK i \in DOMAIN merged : merged[i].id = t
    BY <1>5, <1>6 DEF Ids
  <2>2. Old(merged[i]) = "done"
    BY <1>6, <2>1 DEF Has
  <2> QED
    BY <1>3, <1>4, <1>5, <2>1, <2>2
<1> QED
  BY <1>5, <1>6 DEF r

-----------------------------------------------------------------------------
(* What an edit holds *)

Jobs ==
  {Idle}
    \cup [op : {"apply"}, base : Lists, file : FileLists, force : BOOLEAN]
    \cup [op : {"add"}, base : Lists, title : Title,
          deps : SUBSET (Nat \ {0}), after : Nat]
    \cup [op : {"remove"}, base : Lists, task : Nat, delete : BOOLEAN,
          force : BOOLEAN]
    \cup [op : {"reorder"}, base : Lists, front : Seq(Nat)]
    \cup [op : {"update"}, base : Lists, task : Nat, title : Title]
    \cup [op : {"replan"}, base : Lists, strategy : Strategies, dry : BOOLEAN]
    \cup [op : {"confirm"}, file : Lists]

\* What the command names is in the list that was loaded.
Fits(edit) ==
  /\ edit.op = "add" => edit.deps \subseteq Ids(edit.base)
  /\ edit.op \in {"remove", "update"} => edit.task \in Ids(edit.base)
  /\ edit.op = "reorder" =>
       /\ \A i \in DOMAIN edit.front : edit.front[i] \in Ids(edit.base)
       /\ \A i, j \in DOMAIN edit.front : edit.front[i] = edit.front[j] => i = j

EditTypes ==
  /\ tasks \in Lists
  /\ job \in Jobs /\ Fits(job)
  /\ begun \in 0 .. MaxBegun
  /\ replanned \in BOOLEAN /\ overlapped \in BOOLEAN

LEMMA JobParts ==
  ASSUME NEW edit \in Jobs
  PROVE  /\ edit.op \in Ops \cup {"none"}
         /\ edit.op = "none" <=> edit = Idle
         /\ edit.op \notin {"none", "confirm"} => edit.base \in Lists
         /\ edit.op = "apply" => edit.file \in FileLists /\ edit.force \in BOOLEAN
         /\ edit.op = "add" => /\ edit.title \in Title
                               /\ edit.deps \in SUBSET (Nat \ {0})
         /\ edit.op = "remove" => edit.delete \in BOOLEAN /\ edit.force \in BOOLEAN
         /\ edit.op = "reorder" => edit.front \in Seq(Nat)
         /\ edit.op = "update" => edit.title \in Title
         /\ edit.op = "replan" => edit.strategy \in Strategies /\ edit.dry \in BOOLEAN
         /\ edit.op = "confirm" => edit.file \in Lists
<1>1. CASE edit = Idle
  BY <1>1 DEF Idle
<1>2. CASE edit \in [op : {"apply"}, base : Lists, file : FileLists, force : BOOLEAN]
  BY <1>2 DEF Idle, Ops
<1>3. CASE edit \in [op : {"add"}, base : Lists, title : Title,
                    deps : SUBSET (Nat \ {0}), after : Nat]
  BY <1>3 DEF Idle, Ops
<1>4. CASE edit \in [op : {"remove"}, base : Lists, task : Nat, delete : BOOLEAN,
                    force : BOOLEAN]
  BY <1>4 DEF Idle, Ops
<1>5. CASE edit \in [op : {"reorder"}, base : Lists, front : Seq(Nat)]
  BY <1>5 DEF Idle, Ops
<1>6. CASE edit \in [op : {"update"}, base : Lists, task : Nat, title : Title]
  BY <1>6 DEF Idle, Ops
<1>7. CASE edit \in [op : {"replan"}, base : Lists, strategy : Strategies,
                    dry : BOOLEAN]
  BY <1>7 DEF Idle, Ops
<1>8. CASE edit \in [op : {"confirm"}, file : Lists]
  BY <1>8 DEF Idle, Ops
<1> QED
  BY <1>1, <1>2, <1>3, <1>4, <1>5, <1>6, <1>7, <1>8 DEF Jobs

LEMMA FilesAre == tasks \in Lists => Files \subseteq FileLists
<1> SUFFICES ASSUME tasks \in Lists, NEW file \in Files PROVE file \in FileLists
  OBVIOUS
<1> DEFINE new == Largest(tasks) + 1
           all == Ids(tasks) \cup {new}
           Line(t, deps) == [id |-> t, deps |-> deps, status |-> "pending",
                             title |-> IF t = new THEN CHOOSE x \in Title : TRUE
                                       ELSE At(tasks, t).title]
           Body(ids) == {[i \in DOMAIN ids |-> Line(ids[i], d[i])] :
                           d \in [DOMAIN ids -> SUBSET Range(ids)]}
<1>1. Largest(tasks) \in Nat /\ IsFiniteSet(Ids(tasks)) /\ Ids(tasks) \subseteq Nat \ {0}
  BY NewId, UniqueCounts, AnEntry DEF Lists, FileLists
<1>2. all \in SUBSET (Nat \ {0}) /\ IsFiniteSet(all)
  BY <1>1, FS_AddElement
<1>3. ASSUME NEW t \in all, NEW deps \in SUBSET all
      PROVE  Line(t, deps) \in Task /\ IsFiniteSet(Line(t, deps).deps)
  <2>1. (CHOOSE x \in Title : TRUE) \in Title
    BY EditAssumption, Zenon
  <2>2. t # new => At(tasks, t).title \in Title
    BY AnEntry
  <2>3. IsFiniteSet(deps) /\ deps \in SUBSET (Nat \ {0})
    BY <1>2, FS_Subset
  <2>4. (IF t = new THEN CHOOSE x \in Title : TRUE ELSE At(tasks, t).title) \in Title
    BY <2>1, <2>2
  <2> HIDE DEF new
  <2>5. t \in Nat \ {0}
    BY <1>2
  <2> QED
    BY <2>3, <2>4, <2>5 DEF Task, Status
<1>4. PICK ids \in {<<t>> : t \in Ids(tasks)} \cup {p \in all \X all : p[1] # p[2]}
                 \cup {SetToSeq(all)} : file \in Body(ids)
  BY DEF Files
<1>5. ids \in Seq(all)
  <2>1. CASE ids \in {<<t>> : t \in Ids(tasks)}
    <3>1. PICK t \in Ids(tasks) : ids = <<t>>
      BY <2>1
    <3>2. t \in all
      OBVIOUS
    <3> HIDE DEF all
    <3> QED
      BY <3>1, <3>2
  <2>2. CASE ids \in all \X all
    <3>1. PICK t \in all, u \in all : ids = <<t, u>>
      BY <2>2
    <3> QED
      BY <3>1
  <2>3. CASE ids = SetToSeq(all)
    <3>1. Cardinality(all) \in Nat /\ ExistsBijection(1 .. Cardinality(all), all)
      BY <1>2, FS_CardinalityType
    <3>2. \E f \in [1 .. Cardinality(all) -> all] : IsInjective(f)
      BY <3>1 DEF ExistsBijection, Bijection, Injection
    <3>3. SetToSeq(all) \in [1 .. Cardinality(all) -> all]
      BY <3>2, Zenon DEF SetToSeq
    <3> HIDE DEF all
    <3> QED
      BY <2>3, <3>1, <3>3
  <2>4. \/ ids \in {<<t>> : t \in Ids(tasks)}
        \/ ids \in {p \in all \X all : p[1] # p[2]}
        \/ ids \in {SetToSeq(all)}
    BY <1>4, Zenon
  <2>5. ids \in {p \in all \X all : p[1] # p[2]} => ids \in all \X all
    BY Zenon
  <2> HIDE DEF all
  <2> QED
    BY <2>1, <2>2, <2>3, <2>4, <2>5
<1> HIDE DEF Line, all
<1>6. PICK d \in [DOMAIN ids -> SUBSET Range(ids)] :
        file = [i \in DOMAIN ids |-> Line(ids[i], d[i])]
  BY <1>4
<1>7. /\ DOMAIN ids = 1 .. Len(ids) /\ Len(ids) \in Nat
      /\ \A i \in DOMAIN ids : ids[i] \in all
  BY <1>5, LenProperties, ElementOfSeq
<1>8. Range(ids) \subseteq all
  BY <1>7 DEF Range
<1>9. \A i \in DOMAIN ids : d[i] \in SUBSET all
  BY <1>8
<1>10. \A i \in DOMAIN ids : file[i] \in Task /\ IsFiniteSet(file[i].deps)
  BY <1>3, <1>6, <1>7, <1>9
<1>11. file = [i \in 1 .. Len(ids) |-> file[i]]
  BY <1>6, <1>7
<1>12. [i \in 1 .. Len(ids) |-> file[i]] \in Seq(Task)
  BY <1>7, <1>10, IsASeq
<1>13. DOMAIN file = DOMAIN ids
  BY <1>6
<1> QED
  BY <1>10, <1>11, <1>12, <1>13 DEF FileLists, FiniteDeps

\* A file that passes the validation.
LEMMA ValidIs ==
  ASSUME NEW file \in FileLists, Valid(file)
  PROVE  /\ file \in Lists /\ Named(file) = Ids(file) /\ Closed(file)
         /\ DetectCycles(file) = {}
<1>1. file \in Lists
  BY UniqueCounts DEF Valid, Lists, FileLists
<1>2. Named(file) = Ids(file)
  BY DEF Valid, DeadRefs, Named
<1> QED
  BY <1>1, <1>2, ClosedIs DEF Valid

-----------------------------------------------------------------------------
(* The steps *)

LEMMA TypesStep == EditTypes /\ [EditNext]_editVars => EditTypes'
<1> SUFFICES ASSUME EditTypes, [EditNext]_editVars PROVE EditTypes'
  OBVIOUS
<1> USE DEF EditTypes
<1>0. Idle \in Jobs /\ Fits(Idle)
  BY DEF Idle, Jobs, Fits
<1>1. CASE UNCHANGED editVars
  BY <1>1 DEF editVars
<1>2. ASSUME NEW t \in Ids(tasks), NEW status \in Status, UpdateTaskStatus(t, status)
      PROVE  EditTypes'
  BY <1>2, MarkedIs DEF UpdateTaskStatus
<1>3. ASSUME Ready, NEW edit \in Jobs, Fits(edit), Load(edit)
      PROVE  EditTypes'
  <2>1. begun' \in 0 .. MaxBegun
    BY <1>3, EditAssumption DEF Ready, Load
  <2> QED
    BY <1>3, <2>1 DEF Load
<1>4. CASE BeginApply
  <2>1. PICK file \in Files, force \in BOOLEAN :
          Ready /\ Load([op |-> "apply", base |-> tasks, file |-> file, force |-> force])
    BY <1>4 DEF BeginApply
  <2>2. file \in FileLists
    BY FilesAre
  <2> DEFINE edit == [op |-> "apply", base |-> tasks, file |-> file, force |-> force]
  <2>3. edit \in [op : {"apply"}, base : Lists, file : FileLists, force : BOOLEAN]
        /\ edit.op = "apply"
    BY <2>2
  <2> HIDE DEF edit
  <2>4. edit \in Jobs /\ Fits(edit)
    BY <2>3 DEF Jobs, Fits
  <2> QED
    BY <1>3, <2>1, <2>4 DEF edit
<1>5. CASE BeginEdit
  <2>1. \A t \in Ids(tasks) : t \in Nat \ {0}
    BY AnEntry
  <2>2. ASSUME NEW title \in Title, NEW deps \in SUBSET Ids(tasks),
               NEW after \in Ids(tasks) \cup {0}, Ready,
               Load([op |-> "add", base |-> tasks, title |-> title,
                     deps |-> deps, after |-> after])
        PROVE  EditTypes'
    <3> DEFINE edit == [op |-> "add", base |-> tasks, title |-> title,
                        deps |-> deps, after |-> after]
    <3>1. /\ edit \in [op : {"add"}, base : Lists, title : Title,
                       deps : SUBSET (Nat \ {0}), after : Nat]
          /\ edit.op = "add" /\ edit.deps \subseteq Ids(edit.base)
      BY <2>1
    <3> HIDE DEF edit
    <3>2. edit \in Jobs /\ Fits(edit)
      BY <3>1 DEF Jobs, Fits
    <3> QED
      BY <1>3, <2>2, <3>2 DEF edit
  <2>3. ASSUME NEW t \in Ids(tasks), NEW delete \in BOOLEAN, NEW force \in BOOLEAN,
               Ready, Load([op |-> "remove", base |-> tasks, task |-> t,
                            delete |-> delete, force |-> force])
        PROVE  EditTypes'
    <3> DEFINE edit == [op |-> "remove", base |-> tasks, task |-> t,
                        delete |-> delete, force |-> force]
    <3>1. /\ edit \in [op : {"remove"}, base : Lists, task : Nat,
                       delete : BOOLEAN, force : BOOLEAN]
          /\ edit.op = "remove" /\ edit.task \in Ids(edit.base)
      BY <2>1
    <3> HIDE DEF edit
    <3>2. edit \in Jobs /\ Fits(edit)
      BY <3>1 DEF Jobs, Fits
    <3> QED
      BY <1>3, <2>3, <3>2 DEF edit
  <2>4. ASSUME NEW t \in Ids(tasks), NEW u \in Ids(tasks), Ready,
               Load([op |-> "reorder", base |-> tasks,
                     front |-> IF t = u THEN <<t>> ELSE <<t, u>>])
        PROVE  EditTypes'
    <3> DEFINE front == IF t = u THEN <<t>> ELSE <<t, u>>
               edit == [op |-> "reorder", base |-> tasks, front |-> front]
    <3>1. /\ front \in Seq(Nat)
          /\ \A i \in DOMAIN front : front[i] \in Ids(tasks)
          /\ \A i, j \in DOMAIN front : front[i] = front[j] => i = j
      <4>1. CASE t = u
        BY <2>1, <4>1
      <4>2. CASE t # u
        BY <2>1, <4>2
      <4> QED
        BY <4>1, <4>2
    <3> HIDE DEF front
    <3>2. /\ edit \in [op : {"reorder"}, base : Lists, front : Seq(Nat)]
          /\ edit.op = "reorder" /\ edit.base = tasks /\ edit.front = front
      BY <3>1
    <3> HIDE DEF edit
    <3>3. edit \in Jobs /\ Fits(edit)
      BY <3>1, <3>2 DEF Jobs, Fits
    <3> QED
      BY <1>3, <2>4, <3>3 DEF edit, front
  <2>5. ASSUME NEW t \in Ids(tasks), NEW title \in Title, Ready,
               Load([op |-> "update", base |-> tasks, task |-> t, title |-> title])
        PROVE  EditTypes'
    <3> DEFINE edit == [op |-> "update", base |-> tasks, task |-> t, title |-> title]
    <3>1. /\ edit \in [op : {"update"}, base : Lists, task : Nat, title : Title]
          /\ edit.op = "update" /\ edit.task \in Ids(edit.base)
      BY <2>1
    <3> HIDE DEF edit
    <3>2. edit \in Jobs /\ Fits(edit)
      BY <3>1 DEF Jobs, Fits
    <3> QED
      BY <1>3, <2>5, <3>2 DEF edit
  <2> QED
    BY <1>5, <2>2, <2>3, <2>4, <2>5 DEF BeginEdit
<1>6. CASE BeginReplan
  <2>1. PICK strategy \in Strategies, dry \in BOOLEAN :
          Ready /\ Load([op |-> "replan", base |-> tasks, strategy |-> strategy,
                         dry |-> dry])
    BY <1>6 DEF BeginReplan
  <2> DEFINE edit == [op |-> "replan", base |-> tasks, strategy |-> strategy,
                      dry |-> dry]
  <2>2. edit \in [op : {"replan"}, base : Lists, strategy : Strategies, dry : BOOLEAN]
        /\ edit.op = "replan"
    OBVIOUS
  <2> HIDE DEF edit
  <2>3. edit \in Jobs /\ Fits(edit)
    BY <2>2 DEF Jobs, Fits
  <2> QED
    BY <1>3, <2>1, <2>3 DEF edit
<1>7. ASSUME Refused, UNCHANGED <<begun, replanned, overlapped>>
      PROVE  EditTypes'
  BY <1>0, <1>7 DEF Refused
<1>8. ASSUME NEW list \in Lists, Save(list)
      PROVE  EditTypes'
  BY <1>0, <1>8 DEF Save
<1>9. CASE SaveApply
  <2>1. CASE Valid(job.file)
    <3>1. job.base \in Lists /\ job.file \in Lists /\ job.force \in BOOLEAN
      BY <1>9, <2>1, JobParts, ValidIs DEF SaveApply
    <3>2. Applied(job.base, job.file, job.force) \in Lists
      BY <3>1, AppliedIs
    <3> QED
      BY <1>8, <1>9, <2>1, <3>2 DEF SaveApply
  <2>2. CASE ~Valid(job.file)
    BY <1>7, <1>9, <2>2 DEF SaveApply
  <2> QED
    BY <2>1, <2>2
<1>10. CASE SaveAdd
  <2>1. /\ job.base \in Lists /\ job.title \in Title /\ job.deps \in SUBSET (Nat \ {0})
        /\ job.deps \subseteq Ids(job.base)
    BY <1>10, JobParts DEF SaveAdd, Fits
  <2>2. IsFiniteSet(job.deps)
    <3>1. IsFiniteSet(Ids(job.base))
      BY <2>1, UniqueCounts DEF Lists, FileLists
    <3> QED
      BY <2>1, <3>1, FS_Subset
  <2>3. AddTask(job.base, job.title, job.deps, job.after) \in Lists
    BY <2>1, <2>2, AddIs
  <2> QED
    BY <1>8, <1>10, <2>3 DEF SaveAdd
<1>11. CASE SaveRemove
  <2>1. /\ job.base \in Lists /\ job.task \in Ids(job.base)
        /\ job.delete \in BOOLEAN /\ job.force \in BOOLEAN
    BY <1>11, JobParts DEF SaveRemove, Fits
  <2>2. RemoveTask(job.base, job.task, job.delete, job.force) \in Lists
    BY <2>1, RemoveIs
  <2> QED
    BY <1>7, <1>8, <1>11, <2>2 DEF SaveRemove
<1>12. CASE SaveReorder
  <2>1. /\ job.base \in Lists /\ job.front \in Seq(Nat)
        /\ \A i \in DOMAIN job.front : job.front[i] \in Ids(job.base)
        /\ \A i, j \in DOMAIN job.front : job.front[i] = job.front[j] => i = j
    BY <1>12, JobParts DEF SaveReorder, Fits
  <2>2. Reordered(job.base, job.front) \in Lists
    BY <2>1, ReorderedIs
  <2> QED
    BY <1>7, <1>8, <1>12, <2>2 DEF SaveReorder
<1>13. CASE SaveUpdate
  <2>1. job.base \in Lists /\ job.task \in Ids(job.base) /\ job.title \in Title
    BY <1>13, JobParts DEF SaveUpdate, Fits
  <2>2. Renamed(job.base, job.task, job.title) \in Lists
    BY <2>1, RenamedIs
  <2> QED
    BY <1>8, <1>13, <2>2 DEF SaveUpdate
<1>14. ASSUME NEW answer \in Answers, Replan(answer)
       PROVE  EditTypes'
  <2> DEFINE list == job.base
             plan == PlannerOutput(answer, Largest(list))
             merged == Merged(list, plan, job.strategy, Largest(list) + Len(plan))
  <2>1. list \in Lists /\ job.strategy \in Strategies
    BY <1>14, JobParts DEF Replan
  <2>2. CASE Accepted(answer)
    <3>1. Largest(list) \in Nat
      BY <2>1, NewId DEF Lists
    <3>2. /\ plan \in Lists /\ Len(plan) \in Nat
          /\ Ids(plan) \subseteq Largest(list) + 1 .. Largest(list) + Len(plan)
      BY <2>2, <3>1, AnswerIs, PlannerOutputIs
    <3>3. merged \in Lists
      BY <2>1, <3>2, MergedIs
    <3>4. Persisted(list, merged) \in Lists
      BY <2>1, <3>3, PersistedIs
    <3>5. /\ tasks' = Persisted(list, merged)
          /\ job' \in {Idle, [op |-> "confirm", file |-> merged]}
          /\ replanned' = TRUE /\ UNCHANGED <<begun, overlapped>>
      BY <1>14, <2>2 DEF Replan
    <3> HIDE DEF merged
    <3>6. /\ [op |-> "confirm", file |-> merged] \in Jobs
          /\ Fits([op |-> "confirm", file |-> merged])
      BY <3>3 DEF Jobs, Fits
    <3> QED
      BY <1>0, <3>4, <3>5, <3>6
  <2>3. CASE ~Accepted(answer)
    BY <1>7, <1>14, <2>3 DEF Replan
  <2> QED
    BY <2>2, <2>3
<1>15. CASE Confirm
  <2>1. CASE Refused
    BY <1>7, <1>15, <2>1 DEF Confirm
  <2>2. CASE ~Refused
    <3> DEFINE edit == [op |-> "apply", file |-> job.file, force |-> FALSE,
                        base |-> tasks]
    <3>1. job.file \in FileLists
      BY <1>15, JobParts DEF Confirm, Lists
    <3>2. edit \in [op : {"apply"}, base : Lists, file : FileLists, force : BOOLEAN]
          /\ edit.op = "apply"
      BY <3>1
    <3>3. job' = edit /\ UNCHANGED <<tasks, begun, replanned, overlapped>>
      BY <1>15, <2>2 DEF Confirm
    <3> HIDE DEF edit
    <3>4. edit \in Jobs /\ Fits(edit)
      BY <3>2 DEF Jobs, Fits
    <3> QED
      BY <3>3, <3>4
  <2> QED
    BY <2>1, <2>2
<1> QED
  BY <1>1, <1>2, <1>4, <1>5, <1>6, <1>9, <1>10, <1>11, <1>12, <1>13, <1>14, <1>15
     DEF EditNext

THEOREM EditsTyped == EditSpec => []EditTypes
<1>1. EditInit => EditTypes
  <2> SUFFICES ASSUME EditInit PROVE EditTypes
    OBVIOUS
  <2>1. /\ tasks \in Seq(Task) /\ Cardinality(Ids(tasks)) = Len(tasks)
        /\ Named(tasks) = Ids(tasks)
    BY PlanAssumption DEF EditInit
  <2>2. Unique(tasks) /\ IsFiniteSet(Ids(tasks))
    BY <2>1, UniqueCounts
  <2>3. FiniteDeps(tasks)
    <3>1. \A i \in DOMAIN tasks : tasks[i].deps \in SUBSET Ids(tasks)
      BY <2>1 DEF Named
    <3> QED
      BY <2>2, <3>1, FS_Subset DEF FiniteDeps
  <2>4. Idle \in Jobs /\ Fits(Idle)
    BY DEF Idle, Jobs, Fits
  <2>5. tasks \in Lists
    BY <2>1, <2>2, <2>3 DEF Lists, FileLists
  <2>6. 0 \in 0 .. MaxBegun
    BY EditAssumption
  <2> QED
    BY <2>4, <2>5, <2>6 DEF EditInit, EditTypes
<1> QED
  BY <1>1, TypesStep, PTL DEF EditSpec

\* The lists and edits are what the module says they are.
THEOREM ListsTyped == EditSpec => []EditTypeOK
<1>1. EditTypes => EditTypeOK
  BY UniqueCounts, JobParts DEF EditTypes, EditTypeOK, Lists, FileLists
<1> QED
  BY <1>1, EditsTyped, PTL

-----------------------------------------------------------------------------
(* Dependencies name tasks *)

\* Until a replan is saved, the list on disk and the list an edit has loaded
\* name their own tasks only.
AllClosed ==
  ~replanned => /\ Closed(tasks)
                /\ job.op # "confirm"
                /\ job # Idle => Closed(job.base)

LEMMA ClosedStep == EditTypes /\ AllClosed /\ [EditNext]_editVars => AllClosed'
<1> SUFFICES ASSUME EditTypes, AllClosed, [EditNext]_editVars, ~replanned'
             PROVE  /\ Closed(tasks') /\ job'.op # "confirm"
                    /\ job' # Idle => Closed(job'.base)
  BY DEF AllClosed
<1> USE DEF EditTypes
<1>0. ~replanned
  BY DEF EditNext, editVars, UpdateTaskStatus, BeginApply, BeginEdit, BeginReplan,
         Load, SaveApply, SaveAdd, SaveRemove, SaveReorder, SaveUpdate, Replan,
         Confirm, Save, Refused
<1>1. Closed(tasks) /\ job.op # "confirm" /\ (job # Idle => Closed(job.base))
  BY <1>0 DEF AllClosed
<1>2. CASE UNCHANGED editVars
  BY <1>1, <1>2 DEF editVars
<1>3. ASSUME NEW t \in Ids(tasks), NEW status \in Status, UpdateTaskStatus(t, status)
      PROVE  Closed(tasks') /\ UNCHANGED job
  <2>1. /\ Ids(tasks') = Ids(tasks)
        /\ At(tasks', t) = [At(tasks, t) EXCEPT !.status = status]
        /\ \A u \in Ids(tasks) \ {t} : At(tasks', u) = At(tasks, u)
    BY <1>3, MarkedIs DEF UpdateTaskStatus
  <2>2. At(tasks', t).deps = At(tasks, t).deps
    BY <2>1, AnEntry DEF Task
  <2> QED
    BY <1>1, <1>3, <2>1, <2>2 DEF Closed, UpdateTaskStatus
<1>4. CASE BeginApply \/ BeginEdit \/ BeginReplan
  BY <1>1, <1>4 DEF BeginApply, BeginEdit, BeginReplan, Load
<1>5. ASSUME Refused
      PROVE  /\ Closed(tasks') /\ job'.op # "confirm"
             /\ job' # Idle => Closed(job'.base)
  BY <1>1, <1>5 DEF Refused, Idle
<1>6. ASSUME NEW list \in Lists, Closed(list), Save(list)
      PROVE  /\ Closed(tasks') /\ job'.op # "confirm"
             /\ job' # Idle => Closed(job'.base)
  BY <1>6 DEF Save, Idle
<1>7. ASSUME job.op \notin {"none", "confirm"}
      PROVE  /\ job.base \in Lists /\ Closed(job.base)
             /\ Named(job.base) = Ids(job.base)
  <2>1. job.base \in Lists /\ job # Idle
    BY <1>7, JobParts
  <2> QED
    BY <1>1, <2>1, ClosedIs
<1>8. CASE SaveApply
  <2> DEFINE list == job.base
             file == job.file
             r == Applied(list, file, job.force)
  <2>1. CASE Valid(file)
    <3>1. /\ list \in Lists /\ Closed(list) /\ job.force \in BOOLEAN
          /\ file \in Lists /\ Closed(file)
      BY <1>7, <1>8, <2>1, JobParts, ValidIs DEF SaveApply
    <3>2. /\ r \in Lists /\ Ids(r) = Ids(file) \cup Ids(list)
          /\ \A t \in Ids(file) : At(r, t) = Entry(list, job.force, At(file, t))
          /\ \A t \in Ids(list) \ Ids(file) :
               At(r, t).deps \subseteq At(list, t).deps
      BY <3>1, AppliedIs
    <3> HIDE DEF r, list, file
    <3>3. ASSUME NEW t \in Ids(file) PROVE At(r, t).deps \subseteq Ids(r)
      <4>1. /\ At(file, t) \in Task /\ At(file, t).id = t
            /\ IsFiniteSet(At(file, t).deps)
        BY <3>1, AnEntry
      <4>2. \/ At(r, t).deps = At(file, t).deps
            \/ t \in Ids(list) /\ At(r, t).deps = At(list, t).deps
        BY <3>1, <3>2, <4>1, EntryIs
      <4> QED
        BY <3>1, <3>2, <4>2 DEF Closed
    <3>4. Closed(r)
      BY <3>1, <3>2, <3>3 DEF Closed
    <3> QED
      BY <1>6, <1>8, <2>1, <3>2, <3>4 DEF SaveApply, r, list, file
  <2>2. CASE ~Valid(file)
    BY <1>5, <1>8, <2>2 DEF SaveApply
  <2> QED
    BY <2>1, <2>2
<1>9. CASE SaveAdd
  <2> DEFINE list == job.base
             n == Largest(list) + 1
             r == AddTask(list, job.title, job.deps, job.after)
  <2>1. /\ list \in Lists /\ Closed(list) /\ job.title \in Title
        /\ job.deps \in SUBSET (Nat \ {0}) /\ job.deps \subseteq Ids(list)
    BY <1>7, <1>9, JobParts DEF SaveAdd, Fits
  <2>2. IsFiniteSet(job.deps)
    <3>1. IsFiniteSet(Ids(list))
      BY <2>1, UniqueCounts DEF Lists, FileLists
    <3> QED
      BY <2>1, <3>1, FS_Subset
  <2>3. /\ r \in Lists /\ Ids(r) = Ids(list) \cup {n}
        /\ \A t \in Ids(list) : At(r, t) = At(list, t)
        /\ At(r, n) = [id |-> n, title |-> job.title, deps |-> job.deps,
                       status |-> "pending"]
    BY <2>1, <2>2, AddIs
  <2> HIDE DEF r, n, list
  <2>4. At(r, n).deps = job.deps
    BY <2>3
  <2>5. Closed(r)
    BY <2>1, <2>3, <2>4 DEF Closed
  <2> QED
    BY <1>6, <1>9, <2>3, <2>5 DEF SaveAdd, r, list
<1>10. CASE SaveRemove
  <2> DEFINE list == job.base
             t == job.task
             r == RemoveTask(list, t, job.delete, job.force)
  <2>1. /\ list \in Lists /\ Closed(list) /\ t \in Ids(list)
        /\ job.delete \in BOOLEAN /\ job.force \in BOOLEAN
    BY <1>7, <1>10, JobParts DEF SaveRemove, Fits
  <2>2. /\ r \in Lists
        /\ Ids(r) = {u \in Ids(list) : job.delete => u # t}
        /\ \A u \in Ids(r) : /\ At(r, u).deps \subseteq At(list, u).deps
                             /\ job.force => t \notin At(r, u).deps
                             /\ At(r, u).status \in {At(list, u).status, "skipped"}
    BY <2>1, RemoveIs
  <2>3. CASE job.force \/ Dependents(list, t) = {}
    <3> HIDE DEF r, t, list
    <3>1. \A u \in Ids(r) : t \notin At(r, u).deps \/ ~job.delete
      BY <2>1, <2>2, <2>3 DEF Dependents
    <3>2. Closed(r)
      BY <2>1, <2>2, <3>1 DEF Closed
    <3> QED
      BY <1>6, <1>10, <2>2, <2>3, <3>2 DEF SaveRemove, r, t, list
  <2>4. CASE ~(job.force \/ Dependents(list, t) = {})
    BY <1>5, <1>10, <2>4 DEF SaveRemove
  <2> QED
    BY <2>3, <2>4
<1>11. CASE SaveReorder
  <2> DEFINE r == Reordered(job.base, job.front)
  <2>1. /\ job.base \in Lists /\ Closed(job.base) /\ job.front \in Seq(Nat)
        /\ \A i \in DOMAIN job.front : job.front[i] \in Ids(job.base)
        /\ \A i, j \in DOMAIN job.front : job.front[i] = job.front[j] => i = j
    BY <1>7, <1>11, JobParts DEF SaveReorder, Fits
  <2>2. /\ r \in Lists /\ Ids(r) = Ids(job.base)
        /\ \A t \in Ids(job.base) : At(r, t) = At(job.base, t)
    BY <2>1, ReorderedIs
  <2> HIDE DEF r
  <2>3. Closed(r)
    BY <2>1, <2>2 DEF Closed
  <2> QED
    BY <1>5, <1>6, <1>11, <2>2, <2>3 DEF SaveReorder, r
<1>12. CASE SaveUpdate
  <2> DEFINE r == Renamed(job.base, job.task, job.title)
  <2>1. /\ job.base \in Lists /\ Closed(job.base)
        /\ job.task \in Ids(job.base) /\ job.title \in Title
    BY <1>7, <1>12, JobParts DEF SaveUpdate, Fits
  <2>2. /\ r \in Lists /\ Ids(r) = Ids(job.base)
        /\ \A u \in Ids(job.base) : At(r, u).deps = At(job.base, u).deps
    BY <2>1, RenamedIs
  <2> HIDE DEF r
  <2>3. Closed(r)
    BY <2>1, <2>2 DEF Closed
  <2> QED
    BY <1>6, <1>12, <2>2, <2>3 DEF SaveUpdate, r
<1>13. ASSUME NEW answer \in Answers, Replan(answer)
       PROVE  /\ Closed(tasks') /\ job'.op # "confirm"
              /\ job' # Idle => Closed(job'.base)
  <2>1. ~Accepted(answer)
    BY <1>13 DEF Replan
  <2> QED
    BY <1>5, <1>13, <2>1 DEF Replan
<1>14. ~Confirm
  BY <1>1 DEF Confirm
<1> QED
  BY <1>1, <1>2, <1>3, <1>4, <1>8, <1>9, <1>10, <1>11, <1>12, <1>13, <1>14
     DEF EditNext

\* Dependencies name tasks, whatever is edited in whatever order, until a
\* replan is saved.
THEOREM DepsName == EditSpec => []DepsNameTasks
<1>1. EditInit => AllClosed
  <2> SUFFICES ASSUME EditInit PROVE AllClosed
    OBVIOUS
  <2>1. /\ \A i \in DOMAIN tasks : tasks[i].deps \subseteq Ids(tasks)
    BY PlanAssumption DEF EditInit, Named
  <2>2. Closed(tasks)
    <3> SUFFICES ASSUME NEW t \in Ids(tasks) PROVE At(tasks, t).deps \subseteq Ids(tasks)
      BY DEF Closed
    <3> QED
      BY <2>1, HasEntry
  <2> QED
    BY <2>2 DEF EditInit, AllClosed, Idle
<1>2. EditTypes /\ AllClosed => DepsNameTasks
  BY ClosedIs DEF EditTypes, AllClosed, DepsNameTasks
<1> QED
  BY <1>1, <1>2, EditsTyped, ClosedStep, PTL DEF EditSpec

-----------------------------------------------------------------------------
(* Finished tasks *)

\* A task that a file is applied to keeps its status, or is skipped.
LEMMA AppliedKeeps ==
  ASSUME NEW list \in Lists, NEW file \in Lists, NEW force \in BOOLEAN,
         NEW t \in Ids(list)
  PROVE  At(Applied(list, file, force), t).status \in {At(list, t).status, "skipped"}
<1> DEFINE r == Applied(list, file, force)
<1>1. /\ r \in Lists /\ Ids(r) = Ids(file) \cup Ids(list)
      /\ \A u \in Ids(file) : At(r, u) = Entry(list, force, At(file, u))
      /\ \A u \in Ids(list) \ Ids(file) :
           At(r, u).status = "skipped" /\ At(r, u).deps \subseteq At(list, u).deps
  BY AppliedIs
<1> HIDE DEF r
<1>2. CASE t \in Ids(file)
  <2>1. At(file, t) \in Task /\ At(file, t).id = t /\ IsFiniteSet(At(file, t).deps)
    BY <1>2, AnEntry
  <2>2. Entry(list, force, At(file, t)).status = At(list, t).status
    BY <2>1, EntryIs
  <2> QED
    BY <1>1, <1>2, <2>2 DEF r
<1> QED
  BY <1>1, <1>2 DEF r

LEMMA DoneStep ==
  ASSUME EditTypes, EditNext, job # Idle, job.base = tasks,
         NEW t \in Ids(tasks) \cap Ids(tasks'), At(tasks, t).status = "done"
  PROVE  At(tasks', t).status \in {"done", "skipped"}
<1> USE DEF EditTypes
<1> DEFINE Goal == At(tasks', t).status \in {"done", "skipped"}
<1>1. ASSUME UNCHANGED tasks PROVE Goal
  BY <1>1
<1>2. ASSUME NEW u \in Ids(tasks), NEW status \in Status, UpdateTaskStatus(u, status)
      PROVE  Goal
  <2>1. u # t
    BY <1>2 DEF UpdateTaskStatus, Steps
  <2>2. tasks' = Marked(tasks, u, status)
    BY <1>2 DEF UpdateTaskStatus
  <2>3. \A v \in Ids(tasks) \ {u} : At(tasks', v) = At(tasks, v)
    BY <2>2, MarkedIs
  <2> QED
    BY <2>1, <2>3
<1>3. ~(BeginApply \/ BeginEdit \/ BeginReplan)
  BY DEF BeginApply, BeginEdit, BeginReplan, Ready
<1>4. CASE SaveApply
  <2>1. CASE Valid(job.file)
    <3> DEFINE file == job.file
               force == job.force
    <3>1. tasks' = Applied(tasks, file, force)
      BY <1>4, <2>1 DEF SaveApply, Save
    <3>2. file \in Lists /\ force \in BOOLEAN
      BY <1>4, <2>1, JobParts, ValidIs DEF SaveApply
    <3> HIDE DEF file, force
    <3> QED
      BY <3>1, <3>2, AppliedKeeps
  <2>2. CASE ~Valid(job.file)
    BY <1>1, <1>4, <2>2 DEF SaveApply, Refused
  <2> QED
    BY <2>1, <2>2
<1>5. CASE SaveAdd
  <2> DEFINE title == job.title
             deps == job.deps
             after == job.after
  <2>1. tasks' = AddTask(tasks, title, deps, after)
    BY <1>5 DEF SaveAdd, Save
  <2>2. /\ title \in Title /\ deps \in SUBSET (Nat \ {0}) /\ deps \subseteq Ids(tasks)
    BY <1>5, JobParts DEF SaveAdd, Fits
  <2> HIDE DEF title, deps, after
  <2>3. IsFiniteSet(deps)
    <3>1. IsFiniteSet(Ids(tasks))
      BY UniqueCounts DEF Lists, FileLists
    <3> QED
      BY <2>2, <3>1, FS_Subset
  <2> DEFINE n == Largest(tasks) + 1
             r == AddTask(tasks, title, deps, after)
  <2>4. /\ r \in Lists /\ Ids(r) = Ids(tasks) \cup {n} /\ n \notin Named(tasks)
        /\ \A u \in Ids(tasks) : At(r, u) = At(tasks, u)
        /\ At(r, n) = [id |-> n, title |-> title, deps |-> deps,
                       status |-> "pending"]
    BY <2>2, <2>3, AddIs
  <2> HIDE DEF r, n
  <2> QED
    BY <2>1, <2>4 DEF r
<1>6. CASE SaveRemove
  <2> DEFINE list == job.base
             u == job.task
             r == RemoveTask(list, u, job.delete, job.force)
  <2>1. /\ list \in Lists /\ u \in Ids(list)
        /\ job.delete \in BOOLEAN /\ job.force \in BOOLEAN
    BY <1>6, JobParts DEF SaveRemove, Fits
  <2>2. \A v \in Ids(r) : At(r, v).status \in {At(list, v).status, "skipped"}
    BY <2>1, RemoveIs
  <2>3. tasks' = r \/ UNCHANGED tasks
    BY <1>6 DEF SaveRemove, Save, Refused
  <2> HIDE DEF r
  <2> QED
    BY <1>1, <2>2, <2>3
<1>7. CASE SaveReorder
  <2>1. /\ job.front \in Seq(Nat)
        /\ \A i \in DOMAIN job.front : job.front[i] \in Ids(tasks)
        /\ \A i, j \in DOMAIN job.front : job.front[i] = job.front[j] => i = j
    BY <1>7, JobParts DEF SaveReorder, Fits
  <2>2. \A u \in Ids(tasks) : At(Reordered(tasks, job.front), u) = At(tasks, u)
    BY <2>1, ReorderedIs
  <2>3. tasks' = Reordered(tasks, job.front) \/ UNCHANGED tasks
    BY <1>7 DEF SaveReorder, Save, Refused
  <2> QED
    BY <1>1, <2>2, <2>3
<1>8. CASE SaveUpdate
  <2>1. job.task \in Ids(tasks) /\ job.title \in Title
    BY <1>8, JobParts DEF SaveUpdate, Fits
  <2>2. \A u \in Ids(tasks) :
          At(Renamed(tasks, job.task, job.title), u).status = At(tasks, u).status
    BY <2>1, RenamedIs
  <2>3. tasks' = Renamed(tasks, job.task, job.title)
    BY <1>8 DEF SaveUpdate, Save
  <2> QED
    BY <2>2, <2>3
<1>9. ASSUME NEW answer \in Answers, Replan(answer)
      PROVE  Goal
  <2> DEFINE plan == PlannerOutput(answer, Largest(tasks))
             merged == Merged(tasks, plan, job.strategy, Largest(tasks) + Len(plan))
  <2>1. CASE Accepted(answer)
    <3>1. Largest(tasks) \in Nat
      BY NewId DEF Lists
    <3>2. /\ plan \in Lists /\ Len(plan) \in Nat
          /\ Ids(plan) \subseteq Largest(tasks) + 1 .. Largest(tasks) + Len(plan)
      BY <2>1, <3>1, AnswerIs, PlannerOutputIs
    <3>3. job.strategy \in Strategies
      BY <1>9, JobParts DEF Replan
    <3>4. merged \in Lists
      BY <3>2, <3>3, MergedIs
    <3>5. tasks' = Persisted(tasks, merged)
      BY <1>9, <2>1 DEF Replan
    <3> HIDE DEF merged
    <3>6. \A u \in Ids(tasks') \cap Ids(tasks) :
            At(tasks, u).status = "done" => At(tasks', u).status = "done"
      BY <3>4, <3>5, PersistedIs
    <3> QED
      BY <3>6
  <2>2. CASE ~Accepted(answer)
    BY <1>1, <1>9, <2>2 DEF Replan, Refused
  <2> QED
    BY <2>1, <2>2
<1>10. CASE Confirm
  BY <1>1, <1>10 DEF Confirm, Refused
<1> QED
  BY <1>2, <1>3, <1>4, <1>5, <1>6, <1>7, <1>8, <1>9, <1>10 DEF EditNext

\* An edit of the list as it is sends no finished task back.
THEOREM DoneStays == EditSpec => DoneIsNotRedone
<1>1. EditTypes /\ [EditNext]_editVars =>
        [job # Idle /\ "base" \in DOMAIN job /\ job.base = tasks =>
           \A t \in Ids(tasks) \cap Ids(tasks') :
             At(tasks, t).status = "done"
               => At(tasks', t).status \in {"done", "skipped"}]_editVars
  BY DoneStep
<1> QED
  BY <1>1, EditsTyped, PTL DEF EditSpec, DoneIsNotRedone

-----------------------------------------------------------------------------
(* Loops *)

\* The states of a loop, before its first turn and after each.
After(h, seq, start, Body) ==
  h = [i \in 0 .. Len(seq) |-> IF i = 0 THEN start ELSE Body[seq[i]][h[i - 1]]]

\* A loop has its turns, one after the other.
LEMMA Turns ==
  ASSUME NEW seq, Len(seq) \in Nat, NEW start, NEW Body
  PROVE  \E h : After(h, seq, start, Body)
<1> DEFINE n == Len(seq)
<1>0. n \in Nat
  OBVIOUS
<1> HIDE DEF n
<1> DEFINE Good(h, k) == \A i \in 0 .. k :
                            h[i] = IF i = 0 THEN start ELSE Body[seq[i]][h[i - 1]]
           P == {k \in 0 .. n : \E h : Good(h, k)}
<1>1. 0 \in P
  <2>1. Good([i \in {0} |-> start], 0)
    OBVIOUS
  <2>2. 0 \in 0 .. n
    BY <1>0
  <2> HIDE DEF Good
  <2> QED
    BY <2>1, <2>2
<1>2. ASSUME NEW k \in 1 .. n, k - 1 \in P PROVE k \in P
  <2>1. PICK h : Good(h, k - 1)
    BY <1>2
  <2> DEFINE g == [i \in 0 .. k |-> IF i = k THEN Body[seq[k]][h[k - 1]] ELSE h[i]]
  <2>2. ASSUME NEW i \in 0 .. k
        PROVE  g[i] = IF i = 0 THEN start ELSE Body[seq[i]][g[i - 1]]
    <3>1. CASE i = k
      <4>1. i # 0 /\ i - 1 \in 0 .. k /\ i - 1 # k
        BY <3>1
      <4>2. g[i] = Body[seq[k]][h[k - 1]] /\ g[i - 1] = h[i - 1]
        BY <3>1, <4>1
      <4> QED
        BY <3>1, <4>1, <4>2
    <3>2. CASE i = 0
      <4>1. g[i] = h[0] /\ h[0] = start
        BY <2>1, <3>2
      <4> QED
        BY <3>2, <4>1
    <3>3. CASE i # k /\ i # 0
      <4>1. i \in 0 .. k - 1 /\ i - 1 \in 0 .. k /\ i - 1 # k
        BY <3>3
      <4>2. g[i] = h[i] /\ g[i - 1] = h[i - 1]
        BY <3>3, <4>1
      <4>3. h[i] = Body[seq[i]][h[i - 1]]
        BY <2>1, <3>3, <4>1
      <4> QED
        BY <3>3, <4>2, <4>3
    <3> QED
      BY <3>1, <3>2, <3>3
  <2> HIDE DEF g
  <2>3. Good(g, k)
    BY <2>2
  <2> HIDE DEF Good
  <2> QED
    BY <2>3
<1>3. n \in P
  <2> HIDE DEF P
  <2> QED
    BY <1>0, <1>1, <1>2, UpTo
<1>4. PICK h : Good(h, n)
  BY <1>3
<1> DEFINE f == [i \in 0 .. n |-> h[i]]
<1>5. f = [i \in 0 .. n |-> IF i = 0 THEN start ELSE Body[seq[i]][f[i - 1]]]
  <2>1. ASSUME NEW i \in 0 .. n
        PROVE  h[i] = IF i = 0 THEN start ELSE Body[seq[i]][f[i - 1]]
    <3>1. i # 0 => f[i - 1] = h[i - 1]
      <4>1. i # 0 => i - 1 \in 0 .. n
        BY <1>0
      <4> QED
        BY <4>1
    <3> QED
      BY <1>4, <3>1
  <2> QED
    BY <2>1
<1> QED
  BY <1>5 DEF After, n

\* The turns of a loop are those of ForEach.
LEMMA TheTurns ==
  ASSUME NEW seq, Len(seq) \in Nat, NEW start, NEW Body
  PROVE  \E h : /\ ForEach(seq, start, Body) = h[Len(seq)] /\ h[0] = start
                /\ \A i \in 1 .. Len(seq) : h[i] = Body[seq[i]][h[i - 1]]
<1> DEFINE h == CHOOSE h : After(h, seq, start, Body)
<1>1. After(h, seq, start, Body)
  BY Turns
<1>2. ForEach(seq, start, Body) = h[Len(seq)]
  BY DEF ForEach, After
<1> HIDE DEF h
<1>3. h[0] = start /\ \A i \in 1 .. Len(seq) : h[i] = Body[seq[i]][h[i - 1]]
  <2>1. \A i \in 0 .. Len(seq) :
          h[i] = IF i = 0 THEN start ELSE Body[seq[i]][h[i - 1]]
    BY <1>1, Zenon DEF After
  <2>2. 0 \in 0 .. Len(seq) /\ \A i \in 1 .. Len(seq) : i # 0 /\ i \in 0 .. Len(seq)
    OBVIOUS
  <2> QED
    BY <2>1, <2>2
<1> QED
  BY <1>2, <1>3

\* J says of each turn of a loop which states are expected after it.
Leads(seq, Body, J) ==
  \A i \in 1 .. Len(seq) : \A s \in J[i - 1] : Body[seq[i]][s] \in J[i]

\* On these states the two bodies agree.
Agree(seq, Body, Other, J) ==
  \A i \in 1 .. Len(seq) : \A s \in J[i - 1] : Other[seq[i]][s] = Body[seq[i]][s]

\* What is true before a loop and goes from turn to turn is true after it.
LEMMA LoopKeeps ==
  ASSUME NEW seq, Len(seq) \in Nat, NEW start, NEW Body, NEW J, start \in J[0],
         Leads(seq, Body, J)
  PROVE  ForEach(seq, start, Body) \in J[Len(seq)]
<1> DEFINE n == Len(seq)
<1>1. PICK h : /\ ForEach(seq, start, Body) = h[n] /\ h[0] = start
               /\ \A i \in 1 .. n : h[i] = Body[seq[i]][h[i - 1]]
  BY TheTurns
<1>2. n \in Nat /\ \A i \in 1 .. n : \A s \in J[i - 1] : Body[seq[i]][s] \in J[i]
  BY DEF Leads
<1> HIDE DEF n
<1> DEFINE P == {i \in 0 .. n : h[i] \in J[i]}
<1>5. 0 \in P
  BY <1>1, <1>2
<1>6. ASSUME NEW i \in 1 .. n, i - 1 \in P PROVE i \in P
  <2>1. Body[seq[i]][h[i - 1]] \in J[i]
    BY <1>2, <1>6
  <2>2. h[i] = Body[seq[i]][h[i - 1]] /\ i \in 0 .. n
    BY <1>1, <1>2
  <2> QED
    BY <2>1, <2>2
<1> HIDE DEF P
<1>7. n \in P
  BY <1>2, <1>5, <1>6, UpTo
<1> QED
  BY <1>1, <1>7 DEF P, n

\* Two bodies that agree on the states that occur give the same loop.
LEMMA SameLoop ==
  ASSUME NEW seq, Len(seq) \in Nat, NEW start, NEW Body, NEW Other, NEW J,
         start \in J[0], Leads(seq, Body, J), Agree(seq, Body, Other, J)
  PROVE  ForEach(seq, start, Other) = ForEach(seq, start, Body)
<1> DEFINE n == Len(seq)
<1>1. PICK f : /\ ForEach(seq, start, Body) = f[n] /\ f[0] = start
               /\ \A i \in 1 .. n : f[i] = Body[seq[i]][f[i - 1]]
  BY TheTurns
<1>2. PICK g : /\ ForEach(seq, start, Other) = g[n] /\ g[0] = start
               /\ \A i \in 1 .. n : g[i] = Other[seq[i]][g[i - 1]]
  BY TheTurns
<1>3. /\ n \in Nat
      /\ \A i \in 1 .. n : \A s \in J[i - 1] :
           Body[seq[i]][s] \in J[i] /\ Other[seq[i]][s] = Body[seq[i]][s]
  BY DEF Leads, Agree
<1> HIDE DEF n
<1> DEFINE P == {i \in 0 .. n : f[i] \in J[i] /\ g[i] = f[i]}
<1>4. 0 \in P
  BY <1>1, <1>2, <1>3
<1>5. ASSUME NEW i \in 1 .. n, i - 1 \in P PROVE i \in P
  <2>1. f[i - 1] \in J[i - 1] /\ g[i - 1] = f[i - 1]
    BY <1>5
  <2>2. /\ Body[seq[i]][f[i - 1]] \in J[i]
        /\ Other[seq[i]][f[i - 1]] = Body[seq[i]][f[i - 1]]
    BY <1>3, <2>1
  <2>3. /\ f[i] = Body[seq[i]][f[i - 1]] /\ g[i] = Other[seq[i]][g[i - 1]]
        /\ i \in 0 .. n
    BY <1>1, <1>2, <1>3
  <2> QED
    BY <2>1, <2>2, <2>3
<1> HIDE DEF P
<1>6. n \in Nat /\ \A i \in 1 .. n : i - 1 \in P => i \in P
  BY <1>3, <1>5
<1>7. \A i \in 0 .. n : i \in P
  BY <1>4, <1>6, UpTo
<1> QED
  BY <1>1, <1>2, <1>6, <1>7 DEF P, n

-----------------------------------------------------------------------------
(* The search for cycles *)

\* The colours, and the tasks that have one.
Color == {"white", "gray", "black"}
Painted(s, c) == {t \in DOMAIN s.color : s.color[t] = c}

\* Every task of A depends on one of B.
Linked(file, A, B) == \A t \in A : At(file, t).deps \cap B # {}

\* What the search reports is a cycle.
Sound(file, s) == s.back # {} => Cyclic(Ids(file), file)

\* It has left no cycle behind without reporting one.
Settled(file, s) ==
  s.back = {} =>
    /\ \A t \in Painted(s, "black") :
         At(file, t).deps \cap Ids(file) \subseteq Painted(s, "black")
    /\ ~Cyclic(Painted(s, "black"), file)

\* From s to r, dfs calls that were begun keep their tasks grey, and what was
\* true of the reports and of the tasks left behind remains so.
Onward(file, before, now, s, r) ==
  /\ r \in Search(file)
  /\ Painted(r, "white") \subseteq Painted(s, "white")
  /\ s.back \subseteq r.back
  /\ Linked(file, before, now) /\ Sound(file, s) => Sound(file, r)
  /\ Settled(file, s) => Settled(file, r)

\* What a call dfs(node) in state s has done when it returns in state r.
Visited(file, node, s, r) ==
  LET gray == Painted(s, "gray")
  IN  /\ Onward(file, gray, gray \cup {node}, s, r)
      /\ Painted(r, "gray") = gray
      /\ node \notin Painted(r, "white")

\* What it has done while it looks at the dependencies of node.
Within(file, node, s, r) ==
  LET gray == Painted(s, "gray")
  IN  /\ Onward(file, gray, gray \cup {node}, s, r)
      /\ Painted(r, "gray") = gray \cup {node}
      /\ node \notin Painted(r, "white")

\* A state of the search colours every task of the file with one colour.
LEMMA SearchParts ==
  ASSUME NEW file, NEW s \in Search(file)
  PROVE  /\ s = [color |-> s.color, back |-> s.back]
         /\ s.color \in [Ids(file) -> Color]
         /\ s.back \in SUBSET (Ids(file) \X Ids(file))
         /\ \A c : Painted(s, c) \subseteq Ids(file)
         /\ \A t \in Ids(file) : \/ t \in Painted(s, "white")
                                 \/ t \in Painted(s, "gray")
                                 \/ t \in Painted(s, "black")
         /\ Painted(s, "white") \cap Painted(s, "gray") = {}
         /\ Painted(s, "white") \cap Painted(s, "black") = {}
         /\ Painted(s, "gray") \cap Painted(s, "black") = {}
BY DEF Search, Painted, Color

\* Colouring one task changes nothing else.
LEMMA Paint ==
  ASSUME NEW file, NEW s \in Search(file), NEW node \in Ids(file), NEW c \in Color
  PROVE  LET r == Colored(s, node, c)
         IN  /\ r \in Search(file) /\ r.back = s.back
             /\ Painted(r, c) = Painted(s, c) \cup {node}
             /\ \A d \in Color \ {c} : Painted(r, d) = Painted(s, d) \ {node}
<1> DEFINE r == Colored(s, node, c)
<1>1. s.color \in [Ids(file) -> Color] /\ s.back \in SUBSET (Ids(file) \X Ids(file))
  BY SearchParts
<1>2. r.color = [s.color EXCEPT ![node] = c] /\ r.back = s.back
  BY DEF Search, Colored
<1>3. r.color \in [Ids(file) -> Color]
  BY <1>1, <1>2
<1>4. r \in Search(file)
  BY <1>1, <1>2, <1>3 DEF Search, Color, Colored
<1> HIDE DEF r
<1>5. /\ Painted(r, c) = Painted(s, c) \cup {node}
      /\ \A d \in Color \ {c} : Painted(r, d) = Painted(s, d) \ {node}
  BY <1>1, <1>2 DEF Painted
<1> QED
  BY <1>2, <1>4, <1>5 DEF r

\* Reporting a cycle leaves the colours alone.
LEMMA Report ==
  ASSUME NEW file, NEW s \in Search(file), NEW a \in Ids(file), NEW b \in Ids(file)
  PROVE  LET r == [s EXCEPT !.back = @ \cup {<<a, b>>}]
         IN  /\ r \in Search(file) /\ r.back = s.back \cup {<<a, b>>}
             /\ \A c : Painted(r, c) = Painted(s, c)
BY DEF Search, Painted

\* A call begins.
LEMMA Begun ==
  ASSUME NEW file \in FileLists, NEW s \in Search(file),
         NEW node \in Painted(s, "white")
  PROVE  Within(file, node, s, Colored(s, node, "gray"))
<1> DEFINE r == Colored(s, node, "gray")
<1>1. node \in Ids(file)
  BY SearchParts
<1>2. /\ r \in Search(file) /\ r.back = s.back
      /\ Painted(r, "gray") = Painted(s, "gray") \cup {node}
      /\ \A d \in Color \ {"gray"} : Painted(r, d) = Painted(s, d) \ {node}
  BY <1>1, Paint DEF Color
<1>3. node \notin Painted(s, "black")
  BY SearchParts
<1>4. /\ Painted(r, "white") = Painted(s, "white") \ {node}
      /\ Painted(r, "black") = Painted(s, "black")
  BY <1>2, <1>3 DEF Color
<1> HIDE DEF r
<1>5. (Sound(file, s) => Sound(file, r)) /\ (Settled(file, s) => Settled(file, r))
  BY <1>2, <1>4 DEF Sound, Settled
<1> QED
  BY <1>2, <1>4, <1>5 DEF Within, Onward, r

\* A call ends: its task goes black, and all that task depends on is black.
LEMMA Ended ==
  ASSUME NEW file \in FileLists, NEW s \in Search(file),
         NEW node \in Painted(s, "white"), NEW m, Within(file, node, s, m),
         \A d \in At(file, node).deps \cap Ids(file) :
           m.back = {} => d \in Painted(m, "black")
  PROVE  Visited(file, node, s, Colored(m, node, "black"))
<1> DEFINE r == Colored(m, node, "black")
           black == Painted(m, "black")
<1>1. node \in Ids(file) /\ node \notin Painted(s, "gray") /\ m \in Search(file)
  BY SearchParts DEF Within, Onward
<1>2. /\ r \in Search(file) /\ r.back = m.back
      /\ Painted(r, "black") = black \cup {node}
      /\ \A d \in Color \ {"black"} : Painted(r, d) = Painted(m, d) \ {node}
  BY <1>1, Paint DEF Color
<1>3. /\ Painted(r, "white") = Painted(m, "white") \ {node}
      /\ Painted(r, "gray") = Painted(m, "gray") \ {node}
      /\ Painted(m, "gray") = Painted(s, "gray") \cup {node}
  BY <1>2 DEF Color, Within
<1>4. node \notin black /\ black \subseteq Ids(file)
  BY <1>1, <1>3, SearchParts
<1> HIDE DEF r, black
<1>5. ASSUME Settled(file, m) PROVE Settled(file, r)
  <2> SUFFICES ASSUME r.back = {}
               PROVE  /\ \A t \in black \cup {node} :
                           At(file, t).deps \cap Ids(file) \subseteq black \cup {node}
                      /\ ~Cyclic(black \cup {node}, file)
    BY <1>2 DEF Settled
  <2>1. /\ \A t \in black : At(file, t).deps \cap Ids(file) \subseteq black
        /\ ~Cyclic(black, file)
    BY <1>2, <1>5 DEF Settled, black
  <2>2. At(file, node).deps \cap Ids(file) \subseteq black
    BY <1>2 DEF black
  <2>3. ASSUME NEW C \in (SUBSET (black \cup {node})) \ {{}},
               \A t \in C : At(file, t).deps \cap C # {}
        PROVE  FALSE
    <3>1. \A t \in C : At(file, t).deps \cap (C \cap black) # {}
      <4> SUFFICES ASSUME NEW t \in C
                   PROVE  At(file, t).deps \cap (C \cap black) # {}
        OBVIOUS
      <4>1. PICK d \in C : d \in At(file, t).deps
        BY <2>3
      <4>2. d \in Ids(file)
        BY <1>1, <1>4
      <4> QED
        BY <2>1, <2>2, <4>1, <4>2
    <3>2. C \cap black # {}
      BY <2>3, <3>1
    <3>3. Cyclic(black, file)
      BY <3>1, <3>2 DEF Cyclic
    <3> QED
      BY <2>1, <3>3
  <2> QED
    BY <2>1, <2>2, <2>3 DEF Cyclic
<1>6. Sound(file, m) => Sound(file, r)
  BY <1>2 DEF Sound
<1> QED
  BY <1>1, <1>2, <1>3, <1>5, <1>6 DEF Within, Visited, Onward, r

\* What follows when a state follows another within a call.
LEMMA OnwardFrom ==
  ASSUME NEW file, NEW node \in Ids(file), NEW s \in Search(file),
         NEW m, Within(file, node, s, m), NEW r \in Search(file),
         NEW gray, gray = Painted(s, "gray"),
         Painted(r, "gray") = Painted(m, "gray"),
         Painted(r, "white") \subseteq Painted(m, "white"), m.back \subseteq r.back,
         Linked(file, gray, gray \cup {node}) /\ Sound(file, m) => Sound(file, r),
         Settled(file, m) => Settled(file, r)
  PROVE  Within(file, node, s, r) /\ Painted(m, "black") \subseteq Painted(r, "black")
<1>1. m \in Search(file)
  BY DEF Within, Onward
<1>2. Painted(m, "black") \subseteq Painted(r, "black")
  <2> SUFFICES ASSUME NEW t \in Painted(m, "black") PROVE t \in Painted(r, "black")
    OBVIOUS
  <2>1. t \in Ids(file) /\ t \notin Painted(m, "white") /\ t \notin Painted(m, "gray")
    BY <1>1, SearchParts
  <2>2. t \notin Painted(r, "white") /\ t \notin Painted(r, "gray")
    BY <2>1
  <2> QED
    BY <2>1, <2>2, SearchParts
<1> QED
  BY <1>2 DEF Within, Onward

\* One turn: what is not listed is passed over, a grey task closes a cycle, a
\* white one is visited, a black one is done with.
LEMMA LookKeeps ==
  ASSUME NEW file \in FileLists, NEW visit,
         NEW s \in Search(file), NEW node \in Painted(s, "white"),
         \A call \in Calls(file) :
           Painted(call[2], "white") \subseteq Painted(s, "white") \ {node}
             => Visited(file, call[1], call[2], visit[call]),
         NEW m, Within(file, node, s, m), NEW next \in At(file, node).deps
  PROVE  LET r == Look(file, visit, node, next, m)
         IN  /\ Within(file, node, s, r) /\ m.back \subseteq r.back
             /\ Painted(m, "black") \subseteq Painted(r, "black")
             /\ next \in Ids(file) /\ r.back = {} => next \in Painted(r, "black")
<1> DEFINE r == Look(file, visit, node, next, m)
           gray == Painted(s, "gray")
<1>1. /\ node \in Ids(file) /\ m \in Search(file)
      /\ Painted(m, "gray") = gray \cup {node}
      /\ Painted(m, "white") \subseteq Painted(s, "white") \ {node}
      /\ gray \subseteq Ids(file)
  BY SearchParts DEF Within, Onward
<1>2. CASE next \notin Ids(file)
  BY <1>2 DEF Look, Has
<1>3. CASE next \in Ids(file) /\ m.color[next] = "gray"
  <2> DEFINE e == [m EXCEPT !.back = @ \cup {<<node, next>>}]
  <2>1. r = e
    BY <1>3 DEF Look, Has
  <2>2. /\ e \in Search(file) /\ e.back = m.back \cup {<<node, next>>}
        /\ \A c : Painted(e, c) = Painted(m, c)
    BY <1>1, <1>3, Report
  <2>3. next \in gray \cup {node}
    BY <1>1, <1>3 DEF Painted, Search
  <2> HIDE DEF e, r
  <2>4. ASSUME Linked(file, gray, gray \cup {node}) PROVE Sound(file, e)
    <3>1. \A t \in gray \cup {node} : At(file, t).deps \cap (gray \cup {node}) # {}
      BY <2>3, <2>4 DEF Linked
    <3>2. gray \cup {node} \in (SUBSET Ids(file)) \ {{}}
      BY <1>1
    <3> QED
      BY <3>1, <3>2 DEF Sound, Cyclic
  <2>5. e.back # {} /\ Settled(file, e)
    BY <2>2 DEF Settled
  <2>6. /\ Within(file, node, s, e)
        /\ Painted(m, "black") \subseteq Painted(e, "black")
    BY <1>1, <2>2, <2>4, <2>5, OnwardFrom
  <2> QED
    BY <2>1, <2>2, <2>5, <2>6 DEF r
<1>4. CASE next \in Ids(file) /\ m.color[next] = "white"
  <2> DEFINE v == visit[<<next, m>>]
  <2>1. r = v
    BY <1>4 DEF Look, Has
  <2>2. <<next, m>> \in Calls(file)
    BY <1>1, <1>4 DEF Calls
  <2>3. Visited(file, next, m, v)
    <3>1. Painted(<<next, m>>[2], "white") \subseteq Painted(s, "white") \ {node}
      BY <1>1
    <3> QED
      BY <2>2, <3>1
  <2> HIDE DEF v, r
  <2>4. /\ v \in Search(file) /\ Painted(v, "gray") = Painted(m, "gray")
        /\ Painted(v, "white") \subseteq Painted(m, "white") /\ m.back \subseteq v.back
        /\ next \notin Painted(v, "white") /\ (Settled(file, m) => Settled(file, v))
    BY <2>3 DEF Visited, Onward
  <2>5. ASSUME Linked(file, gray, gray \cup {node}), Sound(file, m)
        PROVE  Sound(file, v)
    <3>1. Linked(file, gray \cup {node}, gray \cup {node} \cup {next})
      BY <2>5 DEF Linked
    <3> QED
      BY <1>1, <2>3, <2>5, <3>1 DEF Visited, Onward
  <2>6. /\ Within(file, node, s, v)
        /\ Painted(m, "black") \subseteq Painted(v, "black")
    BY <1>1, <2>4, <2>5, OnwardFrom
  <2>7. next \in Painted(v, "black")
    <3>1. next \in Painted(m, "white") /\ next \notin Painted(m, "gray")
      BY <1>1, <1>4 DEF Painted, Search
    <3> QED
      BY <1>4, <2>4, <3>1, SearchParts
  <2> QED
    BY <2>1, <2>4, <2>6, <2>7 DEF r
<1>5. CASE next \in Ids(file) /\ m.color[next] \notin {"white", "gray"}
  <2>1. r = m
    BY <1>5 DEF Look, Has
  <2>2. next \in Painted(m, "black")
    BY <1>1, <1>5 DEF Painted, Search
  <2> QED
    BY <2>1, <2>2
<1> QED
  BY <1>2, <1>3, <1>4, <1>5

\* The sequence of a finite set names its elements and all of them.
LEMMA Enumerated ==
  ASSUME NEW S, IsFiniteSet(S)
  PROVE  LET q == SetToSeq(S)
         IN  /\ Len(q) \in Nat /\ \A i \in 1 .. Len(q) : q[i] \in S
             /\ \A x \in S : \E i \in 1 .. Len(q) : q[i] = x
<1> DEFINE q == SetToSeq(S)
           n == Cardinality(S)
<1>1. n \in Nat /\ ExistsBijection(1 .. n, S)
  BY FS_CardinalityType
<1>2. \E f \in [1 .. n -> S] : IsInjective(f)
  BY <1>1 DEF ExistsBijection, Bijection, Injection
<1>3. q \in [1 .. n -> S] /\ IsInjective(q)
  BY <1>2, Zenon DEF SetToSeq
<1> HIDE DEF q
<1>4. q \in Injection(1 .. n, S)
  BY <1>3 DEF Injection
<1>5. Cardinality(1 .. n) = n
  BY <1>1, FS_Interval
<1>6. q \in Surjection(1 .. n, S)
  BY <1>4, <1>5, FS_Injection
<1>7. Len(q) = n
  BY <1>1, <1>3, LenProperties
<1>8. \A x \in S : \E i \in 1 .. n : q[i] = x
  BY <1>6 DEF Surjection
<1> QED
  BY <1>1, <1>3, <1>7, <1>8 DEF q

\* The loop of dfs(node): the dependencies in the order taken, and its body.
InOrder(file, node) == SetToSeq(At(file, node).deps)

DfsBody(file, visit, node) ==
  [next \in At(file, node).deps |->
     [s \in Search(file) |-> Look(file, visit, node, next, s)]]

\* The states in which dfs(node), begun in state s, has looked at i tasks.
Looked(file, node, s) ==
  [i \in 0 .. Len(InOrder(file, node)) |->
     {m \in Search(file) :
        /\ Within(file, node, s, m)
        /\ \A j \in 1 .. i :
             InOrder(file, node)[j] \in Ids(file) /\ m.back = {}
               => InOrder(file, node)[j] \in Painted(m, "black")}]

\* The calls that dfs makes in turn have fewer white tasks left and do what
\* a call does.
Prepared(file, visit, node, s) ==
  \A call \in Calls(file) :
    Painted(call[2], "white") \subseteq Painted(s, "white") \ {node}
      => Visited(file, call[1], call[2], visit[call])

\* The loop of dfs over the dependencies: each turn leads to the states expected
\* after it, and the loop looks at every dependency.
LEMMA DfsLoop ==
  ASSUME NEW file \in FileLists, NEW visit, NEW s \in Search(file),
         NEW node \in Painted(s, "white"), Prepared(file, visit, node, s)
  PROVE  LET n == Len(InOrder(file, node))
             J == Looked(file, node, s)
         IN  /\ n \in Nat /\ Colored(s, node, "gray") \in J[0]
             /\ \A i \in 1 .. n : InOrder(file, node)[i] \in At(file, node).deps
             /\ \A i \in 1 .. n : \A m \in J[i - 1] :
                  DfsBody(file, visit, node)[InOrder(file, node)[i]][m] \in J[i]
             /\ \A d \in At(file, node).deps : \E i \in 1 .. n : InOrder(file, node)[i] = d
<1> DEFINE q == InOrder(file, node)
           n == Len(q)
           J == Looked(file, node, s)
           gray == Colored(s, node, "gray")
<1>1. node \in Ids(file)
  BY SearchParts
<1>2. IsFiniteSet(At(file, node).deps)
  <2>1. PICK i \in DOMAIN file : At(file, node) = file[i]
    BY <1>1 DEF Ids, At
  <2> QED
    BY <2>1 DEF FileLists, FiniteDeps
<1>3. /\ n \in Nat /\ \A i \in 1 .. n : q[i] \in At(file, node).deps
      /\ \A d \in At(file, node).deps : \E i \in 1 .. n : q[i] = d
  BY <1>2, Enumerated DEF InOrder
<1>4. /\ DOMAIN J = 0 .. n
      /\ \A i \in 0 .. n : J[i] = {m \in Search(file) :
           /\ Within(file, node, s, m)
           /\ \A j \in 1 .. i : q[j] \in Ids(file) /\ m.back = {}
                                  => q[j] \in Painted(m, "black")}
  BY DEF Looked
<1>5. gray \in Search(file)
  BY <1>1, Paint DEF Color
<1>6. Within(file, node, s, gray)
  BY Begun
<1> HIDE DEF q, n, J, gray
<1>7. gray \in J[0]
  BY <1>3, <1>4, <1>5, <1>6
<1>8. ASSUME NEW i \in 1 .. n, NEW m \in J[i - 1]
      PROVE  DfsBody(file, visit, node)[q[i]][m] \in J[i]
  <2> DEFINE r == Look(file, visit, node, q[i], m)
  <2>1. i - 1 \in 0 .. n /\ i \in 0 .. n /\ \A j \in 1 .. i : j \in 1 .. i - 1 \/ j = i
    BY <1>3
  <2>2. /\ m \in Search(file) /\ Within(file, node, s, m)
        /\ \A j \in 1 .. i - 1 : q[j] \in Ids(file) /\ m.back = {}
                                   => q[j] \in Painted(m, "black")
    BY <1>4, <2>1
  <2>3. q[i] \in At(file, node).deps
    BY <1>3
  <2>4. /\ Within(file, node, s, r) /\ m.back \subseteq r.back
        /\ Painted(m, "black") \subseteq Painted(r, "black")
        /\ q[i] \in Ids(file) /\ r.back = {} => q[i] \in Painted(r, "black")
    BY <2>2, <2>3, LookKeeps DEF Prepared
  <2>5. DfsBody(file, visit, node)[q[i]][m] = r
    BY <2>2, <2>3 DEF DfsBody
  <2> HIDE DEF r
  <2>6. r \in Search(file)
    BY <2>4 DEF Within, Onward
  <2>7. \A j \in 1 .. i : q[j] \in Ids(file) /\ r.back = {}
                            => q[j] \in Painted(r, "black")
    BY <2>1, <2>2, <2>4
  <2>8. r \in J[i]
    BY <1>4, <2>1, <2>4, <2>6, <2>7
  <2> QED
    BY <2>5, <2>8
<1> QED
  BY <1>3, <1>7, <1>8 DEF q, n, J, gray

\* A call does what a call does if the calls it makes do.
LEMMA DfsKeeps ==
  ASSUME NEW file \in FileLists, NEW visit, NEW s \in Search(file),
         NEW node \in Painted(s, "white"), Prepared(file, visit, node, s)
  PROVE  Visited(file, node, s, Dfs(file, visit, node, s))
<1> DEFINE q == InOrder(file, node)
           J == Looked(file, node, s)
           gray == Colored(s, node, "gray")
           body == DfsBody(file, visit, node)
           m == ForEach(q, gray, body)
<1>1. /\ Len(q) \in Nat /\ gray \in J[0]
      /\ \A i \in 1 .. Len(q) : q[i] \in At(file, node).deps
      /\ \A i \in 1 .. Len(q) : \A k \in J[i - 1] : body[q[i]][k] \in J[i]
      /\ \A d \in At(file, node).deps : \E i \in 1 .. Len(q) : q[i] = d
  BY DfsLoop
<1>2. Dfs(file, visit, node, s) = Colored(m, node, "black")
  BY DEF Dfs, InOrder, DfsBody
<1>3. J[Len(q)] = {k \in Search(file) :
           /\ Within(file, node, s, k)
           /\ \A j \in 1 .. Len(q) : q[j] \in Ids(file) /\ k.back = {}
                                      => q[j] \in Painted(k, "black")}
  BY <1>1 DEF Looked
<1> HIDE DEF q, J, gray, body
<1>4. m \in J[Len(q)]
  <2>1. Leads(q, body, J)
    BY <1>1 DEF Leads
  <2> QED
    BY <1>1, <2>1, LoopKeeps
<1> HIDE DEF m
<1>5. /\ Within(file, node, s, m)
      /\ \A d \in At(file, node).deps \cap Ids(file) :
           m.back = {} => d \in Painted(m, "black")
  BY <1>1, <1>3, <1>4
<1> QED
  BY <1>2, <1>5, Ended

\* It depends on nothing else.
LEMMA DfsSame ==
  ASSUME NEW file \in FileLists, NEW visit, NEW other, NEW s \in Search(file),
         NEW node \in Painted(s, "white"), Prepared(file, visit, node, s),
         \A call \in Calls(file) :
           Painted(call[2], "white") \subseteq Painted(s, "white") \ {node}
             => other[call] = visit[call]
  PROVE  Dfs(file, other, node, s) = Dfs(file, visit, node, s)
<1> DEFINE q == InOrder(file, node)
           J == Looked(file, node, s)
           gray == Colored(s, node, "gray")
           body == DfsBody(file, visit, node)
           twin == DfsBody(file, other, node)
<1>1. /\ Len(q) \in Nat /\ gray \in J[0]
      /\ \A i \in 1 .. Len(q) : q[i] \in At(file, node).deps
      /\ \A i \in 1 .. Len(q) : \A k \in J[i - 1] : body[q[i]][k] \in J[i]
  BY DfsLoop
<1>2. /\ Dfs(file, visit, node, s) = Colored(ForEach(q, gray, body), node, "black")
      /\ Dfs(file, other, node, s) = Colored(ForEach(q, gray, twin), node, "black")
  BY DEF Dfs, InOrder, DfsBody
<1>3. ASSUME NEW i \in 1 .. Len(q), NEW k \in J[i - 1]
      PROVE  twin[q[i]][k] = body[q[i]][k]
  <2>1. k \in Search(file) /\ Within(file, node, s, k)
    BY <1>1 DEF Looked
  <2>2. /\ body[q[i]][k] = Look(file, visit, node, q[i], k)
        /\ twin[q[i]][k] = Look(file, other, node, q[i], k)
    BY <1>1, <2>1 DEF DfsBody
  <2>3. ASSUME q[i] \in Ids(file), k.color[q[i]] = "white"
        PROVE  other[<<q[i], k>>] = visit[<<q[i], k>>]
    <3>1. <<q[i], k>> \in Calls(file)
      BY <2>1, <2>3 DEF Calls
    <3>2. Painted(<<q[i], k>>[2], "white") \subseteq Painted(s, "white") \ {node}
      BY <2>1 DEF Within, Onward
    <3> QED
      BY <3>1, <3>2
  <2> QED
    BY <2>2, <2>3 DEF Look, Has
<1> HIDE DEF q, J, gray, body, twin
<1>4. Leads(q, body, J) /\ Agree(q, body, twin, J)
  BY <1>1, <1>3 DEF Leads, Agree
<1>5. ForEach(q, gray, twin) = ForEach(q, gray, body)
  BY <1>1, <1>4, SameLoop
<1> QED
  BY <1>2, <1>5

\* How many tasks are white when a call is made.
Left(call) == Cardinality(Painted(call[2], "white"))

\* The calls that dfs makes in turn have fewer white tasks than it had.
LEMMA CallParts ==
  ASSUME NEW file \in FileLists, NEW call \in Calls(file)
  PROVE  /\ call = <<call[1], call[2]>> /\ call[2] \in Search(file)
         /\ call[1] \in Painted(call[2], "white")
         /\ Left(call) \in 1 .. Cardinality(Ids(file))
         /\ Cardinality(Ids(file)) \in Nat
         /\ \A next \in Calls(file) :
              Painted(next[2], "white") \subseteq Painted(call[2], "white") \ {call[1]}
                => Left(next) <= Left(call) - 1
<1> DEFINE white == Painted(call[2], "white")
<1>1. /\ call = <<call[1], call[2]>> /\ call[2] \in Search(file)
      /\ call[1] \in white
  BY DEF Calls, Painted, Search
<1>2. IsFiniteSet(Ids(file)) /\ white \subseteq Ids(file)
  BY <1>1, SearchParts, UniqueCounts DEF FileLists
<1> HIDE DEF white
<1>3. /\ IsFiniteSet(white) /\ Cardinality(white) <= Cardinality(Ids(file))
      /\ Cardinality(Ids(file)) \in Nat /\ Cardinality(white) \in Nat
  BY <1>2, FS_Subset, FS_CardinalityType
<1>4. /\ IsFiniteSet(white \ {call[1]})
      /\ Cardinality(white \ {call[1]}) = Cardinality(white) - 1
      /\ Cardinality(white \ {call[1]}) \in Nat
  BY <1>1, <1>3, FS_RemoveElement, FS_CardinalityType
<1>5. ASSUME NEW next \in Calls(file),
             Painted(next[2], "white") \subseteq white \ {call[1]}
      PROVE  Left(next) <= Cardinality(white) - 1
  BY <1>4, <1>5, FS_Subset DEF Left
<1>6. Left(call) = Cardinality(white)
  BY DEF Left, white
<1> QED
  BY <1>1, <1>3, <1>4, <1>5, <1>6 DEF white

\* Whatever makes its calls as dfs does, does what a call does.
LEMMA VisitKeeps ==
  ASSUME NEW file \in FileLists, NEW n \in Nat, NEW visit,
         \A call \in Calls(file) :
           Left(call) <= n => visit[call] = Dfs(file, visit, call[1], call[2])
  PROVE  \A call \in Calls(file) :
           Left(call) <= n => Visited(file, call[1], call[2], visit[call])
<1> DEFINE Good(call) == Visited(file, call[1], call[2], visit[call])
           P == {k \in 0 .. n : \A call \in Calls(file) : Left(call) <= k => Good(call)}
<1>1. 0 \in P
  <2>1. \A call \in Calls(file) : ~(Left(call) <= 0)
    BY CallParts
  <2> QED
    BY <2>1
<1>2. ASSUME NEW k \in 1 .. n, k - 1 \in P PROVE k \in P
  <2> SUFFICES ASSUME NEW call \in Calls(file), Left(call) <= k PROVE Good(call)
    OBVIOUS
  <2>1. /\ call[2] \in Search(file) /\ call[1] \in Painted(call[2], "white")
        /\ Left(call) \in Nat
        /\ \A next \in Calls(file) :
             Painted(next[2], "white") \subseteq Painted(call[2], "white") \ {call[1]}
               => Left(next) <= Left(call) - 1 /\ Left(next) \in Nat
    BY CallParts
  <2>2. \A next \in Calls(file) : Left(next) <= k - 1 => Good(next)
    BY <1>2
  <2> HIDE DEF Good, P
  <2>3. Prepared(file, visit, call[1], call[2])
    <3> SUFFICES ASSUME NEW next \in Calls(file),
                        Painted(next[2], "white")
                          \subseteq Painted(call[2], "white") \ {call[1]}
                 PROVE  Good(next)
      BY DEF Prepared, Good
    <3>1. Left(next) <= k - 1
      BY <2>1
    <3> QED
      BY <2>2, <3>1
  <2>4. Visited(file, call[1], call[2], Dfs(file, visit, call[1], call[2]))
    BY <2>1, <2>3, DfsKeeps
  <2>5. visit[call] = Dfs(file, visit, call[1], call[2])
    <3>1. Left(call) <= n
      BY <2>1
    <3> QED
      BY <3>1
  <2> QED
    BY <2>4, <2>5 DEF Good
<1> HIDE DEF P
<1>3. n \in P
  BY <1>1, <1>2, UpTo
<1> QED
  BY <1>3 DEF P

\* The recursion has a solution.
LEMMA VisitExists ==
  ASSUME NEW file \in FileLists
  PROVE  \E visit : visit = [call \in Calls(file) |-> Dfs(file, visit, call[1], call[2])]
<1> DEFINE n == Cardinality(Ids(file))
           Solves(visit, k) ==
             \A call \in Calls(file) :
               Left(call) <= k => visit[call] = Dfs(file, visit, call[1], call[2])
           P == {k \in 0 .. n : \E visit : Solves(visit, k)}
<1>0. n \in Nat
  BY UniqueCounts, FS_CardinalityType DEF FileLists
<1> HIDE DEF n
<1>9. \A call \in Calls(file) :
        /\ call[2] \in Search(file) /\ call[1] \in Painted(call[2], "white")
        /\ Left(call) \in 1 .. n
        /\ \A next \in Calls(file) :
             Painted(next[2], "white") \subseteq Painted(call[2], "white") \ {call[1]}
               => Left(next) <= Left(call) - 1
  BY CallParts DEF n
<1>1. 0 \in P
  <2>1. \A call \in Calls(file) : ~(Left(call) <= 0)
    BY <1>9, <1>0
  <2>2. Solves(<<>>, 0)
    BY <2>1
  <2> HIDE DEF Solves
  <2> QED
    BY <1>0, <2>2
\* Between a solution up to k and another that agrees with it.
<1>2. ASSUME NEW k \in 0 .. n, NEW visit, Solves(visit, k), NEW other,
             \A call \in Calls(file) : Left(call) <= k => other[call] = visit[call],
             NEW call \in Calls(file), Left(call) <= k + 1
      PROVE  Dfs(file, other, call[1], call[2]) = Dfs(file, visit, call[1], call[2])
  <2>1. \A next \in Calls(file) :
          Left(next) <= k => Visited(file, next[1], next[2], visit[next])
    <3>1. k \in Nat
      BY <1>0
    <3> QED
      BY <1>2, <3>1, VisitKeeps
  <2>2. \A next \in Calls(file) :
          Painted(next[2], "white") \subseteq Painted(call[2], "white") \ {call[1]}
            => Left(next) <= k
    BY <1>0, <1>2, <1>9
  <2>3. Prepared(file, visit, call[1], call[2])
    BY <2>1, <2>2 DEF Prepared
  <2>4. \A next \in Calls(file) :
          Painted(next[2], "white") \subseteq Painted(call[2], "white") \ {call[1]}
            => other[next] = visit[next]
    BY <1>2, <2>2
  <2>5. call[2] \in Search(file) /\ call[1] \in Painted(call[2], "white")
    BY <1>9
  <2> QED
    BY <2>3, <2>4, <2>5, DfsSame
<1>3. ASSUME NEW k \in 1 .. n, k - 1 \in P PROVE k \in P
  <2>1. k - 1 \in 0 .. n /\ k - 1 + 1 = k /\ k \in 0 .. n
    BY <1>0
  <2>2. PICK visit : Solves(visit, k - 1)
    BY <1>3
  <2> DEFINE other == [call \in Calls(file) |->
                         IF Left(call) <= k - 1 THEN visit[call]
                         ELSE Dfs(file, visit, call[1], call[2])]
  <2>3. \A call \in Calls(file) : Left(call) <= k - 1 => other[call] = visit[call]
    OBVIOUS
  <2>4. \A call \in Calls(file) :
          ~(Left(call) <= k - 1) => other[call] = Dfs(file, visit, call[1], call[2])
    OBVIOUS
  <2> HIDE DEF other
  <2>5. ASSUME NEW call \in Calls(file), Left(call) <= k
        PROVE  other[call] = Dfs(file, other, call[1], call[2])
    <3>1. Dfs(file, other, call[1], call[2]) = Dfs(file, visit, call[1], call[2])
      BY <1>2, <2>1, <2>2, <2>3, <2>5
    <3>2. Left(call) <= k - 1 => visit[call] = Dfs(file, visit, call[1], call[2])
      BY <2>2
    <3> QED
      BY <2>3, <2>4, <3>1, <3>2
  <2>6. Solves(other, k)
    BY <2>5
  <2> HIDE DEF Solves
  <2> QED
    BY <2>1, <2>6
<1>4. n \in P
  <2> HIDE DEF P
  <2> QED
    BY <1>0, <1>1, <1>3, UpTo
<1>5. PICK visit : Solves(visit, n)
  BY <1>4
<1> DEFINE f == [call \in Calls(file) |-> visit[call]]
<1>6. \A call \in Calls(file) : f[call] = visit[call]
  OBVIOUS
<1>7. ASSUME NEW call \in Calls(file)
      PROVE  visit[call] = Dfs(file, f, call[1], call[2])
  <2> HIDE DEF f
  <2>1. Left(call) <= n /\ Left(call) <= n + 1 /\ n \in 0 .. n
    BY <1>0, <1>9
  <2>2. Dfs(file, f, call[1], call[2]) = Dfs(file, visit, call[1], call[2])
    BY <1>2, <1>5, <1>6, <2>1
  <2> QED
    BY <1>5, <2>1, <2>2
<1>8. f = [call \in Calls(file) |-> Dfs(file, f, call[1], call[2])]
  <2> DEFINE g == [call \in Calls(file) |-> Dfs(file, f, call[1], call[2])]
  <2>1. \A call \in Calls(file) : visit[call] = Dfs(file, f, call[1], call[2])
    BY <1>7
  <2> QED
    BY <2>1, Zenon
<1> QED
  BY <1>8

\* Each call of the search does what a call does.
LEMMA VisitIs ==
  ASSUME NEW file \in FileLists, NEW s \in Search(file),
         NEW node \in Painted(s, "white")
  PROVE  Visited(file, node, s, Visit(file)[<<node, s>>])
<1> DEFINE Solution(visit) ==
             visit = [call \in Calls(file) |-> Dfs(file, visit, call[1], call[2])]
           v == CHOOSE visit : Solution(visit)
           call == <<node, s>>
<1>1. Solution(v)
  BY VisitExists
<1>2. Visit(file) = v
  BY DEF Visit
<1> HIDE DEF v
<1>3. \A c \in Calls(file) : v[c] = Dfs(file, v, c[1], c[2])
  BY <1>1, Zenon
<1>4. call \in Calls(file)
  BY SearchParts DEF Calls, Painted
<1>5. Left(call) <= Cardinality(Ids(file)) /\ Cardinality(Ids(file)) \in Nat
  BY <1>4, CallParts
<1>6. Visited(file, call[1], call[2], v[call])
  BY <1>3, <1>4, <1>5, VisitKeeps
<1> QED
  BY <1>2, <1>6

\* The states of the search when it has begun at each of the first i tasks.
Searched(file) ==
  [i \in 0 .. Len(file) |->
     {s \in Search(file) :
        /\ Painted(s, "gray") = {} /\ Sound(file, s) /\ Settled(file, s)
        /\ \A j \in 1 .. i : file[j].id \notin Painted(s, "white")}]

\* The search finds a cycle exactly when the file has one, whatever the file.
LEMMA SearchIs ==
  ASSUME NEW file \in FileLists
  PROVE  DetectCycles(file) # {} <=> Cyclic(Ids(file), file)
<1> DEFINE n == Len(file)
           q == [i \in DOMAIN file |-> file[i].id]
           J == Searched(file)
           body == [t \in Ids(file) |-> [s \in Search(file) |->
                      IF s.color[t] = "white" THEN Visit(file)[<<t, s>>] ELSE s]]
           start == Start(file)
           last == ForEach(q, start, body)
<1>1. /\ n \in Nat /\ DOMAIN file = 1 .. n /\ Len(q) = n
      /\ \A i \in 1 .. n : q[i] = file[i].id /\ q[i] \in Ids(file)
      /\ \A t \in Ids(file) : \E i \in 1 .. n : q[i] = t
  <2>1. file \in Seq(Task)
    BY DEF FileLists
  <2>2. n \in Nat /\ DOMAIN file = 1 .. n
    BY <2>1, LenProperties
  <2>3. Len(q) = n
    BY <2>2, LenProperties
  <2>4. \A i \in 1 .. n : q[i] = file[i].id /\ q[i] \in Ids(file)
    BY <2>2 DEF Ids
  <2>5. \A t \in Ids(file) : \E i \in 1 .. n : q[i] = t
    BY <2>2 DEF Ids
  <2> QED
    BY <2>2, <2>3, <2>4, <2>5
<1>2. DetectCycles(file) = last.back
  BY DEF DetectCycles
<1>3. DOMAIN J = 0 .. n /\
      \A i \in 0 .. n : J[i] = {s \in Search(file) :
        /\ Painted(s, "gray") = {} /\ Sound(file, s) /\ Settled(file, s)
        /\ \A j \in 1 .. i : file[j].id \notin Painted(s, "white")}
  BY DEF Searched
<1>4. start \in J[0]
  <2>1. start \in Search(file) /\ start.back = {}
    BY DEF Start, Search
  <2>2. Painted(start, "gray") = {} /\ Painted(start, "black") = {}
    BY DEF Start, Painted
  <2>3. Sound(file, start)
    BY <2>1 DEF Sound
  <2>4. ~Cyclic({}, file)
    BY DEF Cyclic
  <2>5. Settled(file, start)
    BY <2>2, <2>4 DEF Settled
  <2> QED
    BY <1>1, <1>3, <2>1, <2>2, <2>3, <2>5
<1>5. ASSUME NEW i \in 1 .. n, NEW s \in J[i - 1]
      PROVE  body[q[i]][s] \in J[i]
  <2> DEFINE t == q[i]
             r == Visit(file)[<<t, s>>]
  <2>1. /\ i - 1 \in 0 .. n /\ i \in 0 .. n
        /\ \A j \in 1 .. i : j \in 1 .. i - 1 \/ j = i
    BY <1>1
  <2>2. /\ s \in Search(file) /\ Painted(s, "gray") = {}
        /\ Sound(file, s) /\ Settled(file, s)
        /\ \A j \in 1 .. i - 1 : file[j].id \notin Painted(s, "white")
    BY <1>3, <2>1
  <2>3. t \in Ids(file) /\ t = file[i].id
    BY <1>1
  <2>4. body[t][s] = IF s.color[t] = "white" THEN r ELSE s
    BY <2>2, <2>3
  <2> HIDE DEF t, r, body, J
  <2>5. CASE s.color[t] = "white"
    <3>1. t \in Painted(s, "white")
      BY <2>2, <2>3, <2>5 DEF Painted, Search
    <3>2. Visited(file, t, s, r)
      BY <2>2, <3>1, VisitIs DEF r
    <3>3. /\ r \in Search(file) /\ Painted(r, "gray") = {}
          /\ Painted(r, "white") \subseteq Painted(s, "white")
          /\ t \notin Painted(r, "white") /\ Settled(file, r)
      BY <2>2, <3>2 DEF Visited, Onward
    <3>4. Sound(file, r)
      <4>1. Linked(file, Painted(s, "gray"), Painted(s, "gray") \cup {t})
        BY <2>2 DEF Linked
      <4> QED
        BY <2>2, <3>2, <4>1 DEF Visited, Onward
    <3>5. \A j \in 1 .. i : file[j].id \notin Painted(r, "white")
      BY <2>1, <2>2, <2>3, <3>3
    <3>6. r \in J[i]
      BY <1>3, <2>1, <3>3, <3>4, <3>5
    <3> QED
      BY <2>4, <2>5, <3>6 DEF t
  <2>6. CASE s.color[t] # "white"
    <3>1. \A j \in 1 .. i : file[j].id \notin Painted(s, "white")
      BY <2>1, <2>2, <2>3, <2>6 DEF Painted
    <3>2. s \in J[i]
      BY <1>3, <2>1, <2>2, <3>1
    <3> QED
      BY <2>4, <2>6, <3>2 DEF t
  <2> QED
    BY <2>5, <2>6
<1> HIDE DEF n, q, J, body, start
<1>6. last \in J[n]
  <2>1. Leads(q, body, J)
    BY <1>1, <1>5 DEF Leads
  <2> QED
    BY <1>1, <1>4, <2>1, LoopKeeps
<1> HIDE DEF last
<1>7. /\ last \in Search(file) /\ Painted(last, "gray") = {}
      /\ Sound(file, last) /\ Settled(file, last)
      /\ \A j \in 1 .. n : file[j].id \notin Painted(last, "white")
  BY <1>1, <1>3, <1>6
<1>8. Painted(last, "black") = Ids(file)
  <2>1. \A t \in Ids(file) : t \notin Painted(last, "white")
    BY <1>1, <1>7
  <2> QED
    BY <1>7, <2>1, SearchParts
<1> QED
  BY <1>2, <1>7, <1>8 DEF Sound, Settled

\* Whatever is applied to the list, and whatever a replan offers to apply, the
\* search of detectCycles finds a cycle in it exactly when there is one.
THEOREM CyclesAreFound == EditSpec => []CyclesFound
<1>1. EditTypes => CyclesFound
  <2> SUFFICES ASSUME EditTypes, "file" \in DOMAIN job PROVE job.file \in FileLists
    BY SearchIs DEF CyclesFound
  <2>1. job \in Jobs
    BY DEF EditTypes
  <2>2. \/ job \in [op : {"apply"}, base : Lists, file : FileLists, force : BOOLEAN]
        \/ job \in [op : {"confirm"}, file : Lists]
    BY <2>1 DEF Jobs, Idle
  <2> QED
    BY <2>2 DEF Lists
<1> QED
  BY <1>1, EditsTyped, PTL

-----------------------------------------------------------------------------
(* Waiting tasks *)

WaitingIn(list) == {t \in Ids(list) : At(list, t).status \notin {"done", "skipped"}}

\* Fewer nodes with fewer dependencies have no new cycle.
LEMMA CyclesShrink ==
  ASSUME NEW nodes, NEW list, NEW fewer, NEW new, fewer \subseteq nodes,
         \A t \in fewer : At(new, t).deps \subseteq At(list, t).deps,
         Cyclic(fewer, new)
  PROVE  Cyclic(nodes, list)
<1>1. PICK C \in (SUBSET fewer) \ {{}} : \A t \in C : At(new, t).deps \cap C # {}
  BY DEF Cyclic
<1>2. C \in (SUBSET nodes) \ {{}}
  OBVIOUS
<1>3. \A t \in C : At(list, t).deps \cap C # {}
  <2> SUFFICES ASSUME NEW t \in C PROVE At(list, t).deps \cap C # {}
    OBVIOUS
  <2>1. PICK d \in C : d \in At(new, t).deps
    BY <1>1
  <2>2. t \in fewer
    BY <1>1
  <2> QED
    BY <2>1, <2>2
<1> QED
  BY <1>2, <1>3 DEF Cyclic

\* A step lets no tasks wait for one another.
LEMMA CycleStep ==
  EditTypes /\ CyclesFound /\ NoWaitingCycle /\ [EditNext]_editVars => NoWaitingCycle'
<1> SUFFICES ASSUME EditTypes, CyclesFound, NoWaitingCycle, [EditNext]_editVars,
                    ~replanned', ~overlapped', Cyclic(WaitingIn(tasks'), tasks')
             PROVE  FALSE
  BY DEF NoWaitingCycle, Waiting, WaitingIn
<1> USE DEF EditTypes
<1>1. ~replanned /\ ~overlapped
  BY DEF EditNext, editVars, UpdateTaskStatus, BeginApply, BeginEdit, BeginReplan,
         Load, SaveApply, SaveAdd, SaveRemove, SaveReorder, SaveUpdate, Replan,
         Confirm, Save, Refused
<1>2. ~Cyclic(WaitingIn(tasks), tasks)
  BY <1>1 DEF NoWaitingCycle, Waiting, WaitingIn
<1>3. ASSUME UNCHANGED tasks PROVE FALSE
  BY <1>2, <1>3
<1>4. ASSUME NEW t \in Ids(tasks), NEW status \in Status, UpdateTaskStatus(t, status)
      PROVE  FALSE
  <2>1. /\ Ids(tasks') = Ids(tasks)
        /\ At(tasks', t) = [At(tasks, t) EXCEPT !.status = status]
        /\ \A u \in Ids(tasks) \ {t} : At(tasks', u) = At(tasks, u)
    BY <1>4, MarkedIs DEF UpdateTaskStatus
  <2>2. At(tasks', t).deps = At(tasks, t).deps
    BY <2>1, AnEntry DEF Task
  <2>3. At(tasks, t).status \notin {"done", "skipped"}
    BY <1>4 DEF UpdateTaskStatus, Steps
  <2>4. /\ WaitingIn(tasks') \subseteq WaitingIn(tasks)
        /\ \A u \in WaitingIn(tasks') : At(tasks', u).deps \subseteq At(tasks, u).deps
    BY <2>1, <2>2, <2>3 DEF WaitingIn
  <2> QED
    BY <1>2, <2>4, CyclesShrink
<1>5. ASSUME NEW list, Save(list)
      PROVE  /\ tasks' = list /\ job.base = tasks
             /\ \A t \in Ids(tasks) : At(tasks, t).status # "running"
  BY <1>5 DEF Save
<1>6. CASE SaveApply
  <2> DEFINE file == job.file
             force == job.force
  <2>1. CASE Valid(file)
    <3>1. /\ tasks' = Applied(tasks, file, force)
          /\ \A t \in Ids(tasks) : At(tasks, t).status # "running"
      BY <1>5, <1>6, <2>1 DEF SaveApply
    <3>2. file \in Lists /\ force \in BOOLEAN /\ DetectCycles(file) = {}
      BY <1>6, <2>1, JobParts, ValidIs DEF SaveApply
    <3>3. ~Cyclic(Ids(file), file)
      <4>1. "file" \in DOMAIN job
        <5>1. job \in [op : {"apply"}, base : Lists, file : FileLists, force : BOOLEAN]
          BY <1>6 DEF SaveApply, Jobs, Idle
        <5> QED
          BY <5>1
      <4> QED
        BY <3>2, <4>1 DEF CyclesFound
    <3> HIDE DEF file, force
    <3>4. /\ Ids(tasks') = Ids(file) \cup Ids(tasks)
          /\ \A t \in Ids(file) : At(tasks', t) = Entry(tasks, force, At(file, t))
          /\ \A t \in Ids(tasks) \ Ids(file) : At(tasks', t).status = "skipped"
      <4> DEFINE r == Applied(tasks, file, force)
      <4>1. /\ r \in Lists /\ Ids(r) = Ids(file) \cup Ids(tasks)
            /\ \A t \in Ids(file) : At(r, t) = Entry(tasks, force, At(file, t))
            /\ \A t \in Ids(tasks) \ Ids(file) :
                 At(r, t).status = "skipped" /\ At(r, t).deps \subseteq At(tasks, t).deps
        BY <3>2, AppliedIs
      <4> HIDE DEF r
      <4> QED
        BY <3>1, <4>1 DEF r
    <3>5. WaitingIn(tasks') \subseteq Ids(file)
      BY <3>4 DEF WaitingIn
    <3>6. ASSUME NEW t \in WaitingIn(tasks')
          PROVE  At(tasks', t).deps \subseteq At(file, t).deps
      <4>1. /\ At(file, t) \in Task /\ At(file, t).id = t
            /\ IsFiniteSet(At(file, t).deps)
        BY <3>2, <3>5, AnEntry
      <4>2. CASE t \notin Ids(tasks)
        BY <3>2, <3>4, <3>5, <4>1, <4>2, EntryIs
      <4>3. CASE t \in Ids(tasks)
        <5>1. /\ At(tasks', t).status = At(tasks, t).status
              /\ \/ At(tasks', t).deps = At(file, t).deps
                 \/ At(tasks', t).status \notin Modifiable
          BY <3>2, <3>4, <3>5, <4>1, <4>3, EntryIs
        <5>2. At(tasks, t).status \in Status \ {"running", "done", "skipped"}
          BY <3>1, <4>3, <5>1, AnEntry DEF WaitingIn
        <5> QED
          BY <5>1, <5>2 DEF Status, Modifiable
      <4> QED
        BY <4>2, <4>3
    <3> QED
      BY <3>3, <3>5, <3>6, CyclesShrink
  <2>2. CASE ~Valid(file)
    BY <1>3, <1>6, <2>2 DEF SaveApply, Refused
  <2> QED
    BY <2>1, <2>2
<1>7. CASE SaveAdd
  <2> DEFINE title == job.title
             deps == job.deps
             after == job.after
             n == Largest(tasks) + 1
  <2>1. tasks' = AddTask(tasks, title, deps, after)
    BY <1>5, <1>7 DEF SaveAdd
  <2>2. /\ title \in Title /\ deps \in SUBSET (Nat \ {0}) /\ deps \subseteq Ids(tasks)
    BY <1>5, <1>7, JobParts DEF SaveAdd, Fits
  <2> HIDE DEF title, deps, after
  <2>3. IsFiniteSet(deps)
    <3>1. IsFiniteSet(Ids(tasks))
      BY UniqueCounts DEF Lists, FileLists
    <3> QED
      BY <2>2, <3>1, FS_Subset
  <2>4. /\ Ids(tasks') = Ids(tasks) \cup {n} /\ n \notin Named(tasks)
        /\ \A t \in Ids(tasks) : At(tasks', t) = At(tasks, t)
        /\ At(tasks', n) = [id |-> n, title |-> title, deps |-> deps,
                            status |-> "pending"]
    BY <2>1, <2>2, <2>3, AddIs
  <2> HIDE DEF n
  <2>5. PICK C \in (SUBSET WaitingIn(tasks')) \ {{}} :
          \A t \in C : At(tasks', t).deps \cap C # {}
    BY DEF Cyclic
  <2>6. \A t \in C \ {n} : t \in WaitingIn(tasks) /\ At(tasks', t) = At(tasks, t)
    BY <2>4 DEF WaitingIn
  <2>7. \A t \in C \ {n} : At(tasks, t).deps \cap (C \ {n}) # {}
    <3> SUFFICES ASSUME NEW t \in C \ {n}
                 PROVE  At(tasks, t).deps \cap (C \ {n}) # {}
      OBVIOUS
    <3>1. PICK d \in C : d \in At(tasks, t).deps
      BY <2>5, <2>6
    <3>2. At(tasks, t).deps \subseteq Named(tasks)
      BY <2>6, ClosedIs DEF WaitingIn
    <3> QED
      BY <2>4, <3>1, <3>2
  <2>8. C \ {n} # {}
    <3>1. CASE n \in C
      <4>1. At(tasks', n).deps = deps /\ n \notin Ids(tasks)
        BY <2>4 DEF Named
      <4>2. PICK d \in C : d \in deps
        BY <2>5, <3>1, <4>1
      <4> QED
        BY <2>2, <4>1, <4>2
    <3> QED
      BY <3>1
  <2>9. Cyclic(WaitingIn(tasks), tasks)
    BY <2>6, <2>7, <2>8 DEF Cyclic
  <2> QED
    BY <1>2, <2>9
<1>8. CASE SaveRemove
  <2> DEFINE list == job.base
             t == job.task
             delete == job.delete
             force == job.force
             r == RemoveTask(list, t, delete, force)
  <2>1. /\ list \in Lists /\ t \in Ids(list)
        /\ delete \in BOOLEAN /\ force \in BOOLEAN
    BY <1>8, JobParts DEF SaveRemove, Fits
  <2> HIDE DEF list, t, delete, force
  <2>2. /\ r \in Lists
        /\ Ids(r) = {u \in Ids(list) : delete => u # t}
        /\ \A u \in Ids(r) : /\ At(r, u).deps \subseteq At(list, u).deps
                             /\ force => t \notin At(r, u).deps
                             /\ At(r, u).status \in {At(list, u).status, "skipped"}
    BY <2>1, RemoveIs
  <2>3. (tasks' = r /\ list = tasks) \/ UNCHANGED tasks
    BY <1>5, <1>8 DEF SaveRemove, Refused, list, t, delete, force
  <2> HIDE DEF r
  <2>4. /\ WaitingIn(r) \subseteq WaitingIn(list)
        /\ \A u \in WaitingIn(r) : At(r, u).deps \subseteq At(list, u).deps
    BY <2>2 DEF WaitingIn
  <2> QED
    BY <1>2, <1>3, <2>3, <2>4, CyclesShrink
<1>9. CASE SaveReorder
  <2> DEFINE list == job.base
             r == Reordered(list, job.front)
  <2>1. /\ list \in Lists /\ job.front \in Seq(Nat)
        /\ \A i \in DOMAIN job.front : job.front[i] \in Ids(list)
        /\ \A i, j \in DOMAIN job.front : job.front[i] = job.front[j] => i = j
    BY <1>9, JobParts DEF SaveReorder, Fits
  <2>2. /\ Ids(r) = Ids(list)
        /\ \A t \in Ids(list) : At(r, t) = At(list, t)
    BY <2>1, ReorderedIs
  <2>3. (tasks' = r /\ list = tasks) \/ UNCHANGED tasks
    BY <1>5, <1>9 DEF SaveReorder, Refused
  <2> HIDE DEF r, list
  <2>4. /\ WaitingIn(r) \subseteq WaitingIn(list)
        /\ \A v \in WaitingIn(r) : At(r, v).deps \subseteq At(list, v).deps
    BY <2>2 DEF WaitingIn
  <2> QED
    BY <1>2, <1>3, <2>3, <2>4, CyclesShrink
<1>10. CASE SaveUpdate
  <2> DEFINE list == job.base
             r == Renamed(list, job.task, job.title)
  <2>1. list \in Lists /\ job.task \in Ids(list) /\ job.title \in Title
    BY <1>10, JobParts DEF SaveUpdate, Fits
  <2>2. /\ Ids(r) = Ids(list)
        /\ \A t \in Ids(list) : /\ At(r, t).deps = At(list, t).deps
                                /\ At(r, t).status = At(list, t).status
    BY <2>1, RenamedIs
  <2>3. tasks' = r /\ list = tasks
    BY <1>5, <1>10 DEF SaveUpdate
  <2> HIDE DEF r, list
  <2>4. /\ WaitingIn(r) \subseteq WaitingIn(list)
        /\ \A v \in WaitingIn(r) : At(r, v).deps \subseteq At(list, v).deps
    BY <2>2 DEF WaitingIn
  <2> QED
    BY <1>2, <2>3, <2>4, CyclesShrink
<1>11. ASSUME NEW answer \in Answers, Replan(answer)
       PROVE  FALSE
  <2>1. ~Accepted(answer)
    BY <1>11 DEF Replan
  <2> QED
    BY <1>3, <1>11, <2>1 DEF Replan, Refused
<1>12. CASE BeginApply \/ BeginEdit \/ BeginReplan \/ UNCHANGED editVars
  BY <1>3, <1>12 DEF BeginApply, BeginEdit, BeginReplan, Load, editVars
<1>13. CASE Confirm
  BY <1>3, <1>13 DEF Confirm, Refused
<1> QED
  BY <1>4, <1>6, <1>7, <1>8, <1>9, <1>10, <1>11, <1>12, <1>13 DEF EditNext

\* Tasks never wait for one another, if the run began without such tasks.
THEOREM NoDeadlock ==
  ASSUME \A list \in Plan : ~Cyclic(Ids(list), list)
  PROVE  EditSpec => []NoWaitingCycle
<1>1. EditInit => NoWaitingCycle
  <2> SUFFICES ASSUME EditInit, Cyclic(Waiting, tasks) PROVE FALSE
    BY DEF NoWaitingCycle
  <2>1. Waiting \subseteq Ids(tasks)
    BY DEF Waiting
  <2>2. Cyclic(Ids(tasks), tasks)
    BY <2>1, CyclesShrink
  <2> QED
    BY <2>2 DEF EditInit
<1> QED
  BY <1>1, EditsTyped, CyclesAreFound, CycleStep, PTL DEF EditSpec
=============================================================================
