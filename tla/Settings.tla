-------------------------------- MODULE Settings --------------------------------
(***************************************************************************)
(* The two files settings live in: .flowtask/config.json of the project and *)
(* ~/.flowtask/secrets.json, shared by all projects.  Commands, requests to *)
(* the server and a user with an editor write them, without a lock; each    *)
(* writer reads a file, changes its copy and writes it all back.            *)
(*                                                                          *)
(* The commands read through ConfigLoader, which takes defaults for a file  *)
(* the schema refuses and drops what it does not know; the server merges    *)
(* what was sent into the file as it is.  A process holds the secrets it    *)
(* has once read, which matters to `flowtask configure`: it prompts for one *)
(* provider after another.                                                  *)
(***************************************************************************)
EXTENDS Naturals, FiniteSets

CONSTANTS None,
          Process,
          Setting, Unknown,   \* fields the schema has, and others in the file
          Choice,             \* of the settings: planner.provider and its model
          Provider,           \* the fields ai.providers.<name>.apiKeyRef
          Detail, EntryOf,    \* headers, timeoutMs... of those entries, and of which
          EnvKey,             \* providers whose key is in the environment
          Section, SectionOf, \* the top level of the file
          MaxOps, MaxEdits    \* bounds on commands and on edits by hand

Field == Setting \cup Unknown \cup Provider \cup Detail

\* `config set`, `rules add`; `setup`, `configure`, with a key or without and
\* with a model for the planner or without; `providers remove`
Orders == [kind : {"set"}, field : Setting \ Choice, to : BOOLEAN]
            \cup [kind : {"provider"}, field : Provider, to : BOOLEAN,
                   planner : {"kept", "set", "default"}]
            \cup [kind : {"remove"}, field : Provider, to : {FALSE}]

InSection(s) == {f \in Field : SectionOf[f] = s}

\* A section as it is sent: some of its fields, and those of them that are
\* not at their default
Bodies(s) ==
  UNION {[kind : {"put"}, section : {s}, sent : {S}, fields : SUBSET S]
           : S \in SUBSET InSection(s)}

\* setConfigValue; PUT /api/config, updateConfig
Requests == [kind : {"key"}, field : Field, to : BOOLEAN]
              \cup UNION {Bodies(s) : s \in Section}

Op == Orders \cup Requests

ASSUME SettingsAssumption ==
  /\ EnvKey \subseteq Provider /\ Choice \subseteq Setting
  /\ EntryOf \in [Detail -> Provider]
  /\ SectionOf \in [Field -> Section]
  /\ \A p \in Provider : \A s \in Setting \cup Unknown :
       SectionOf[p] # SectionOf[s]
  /\ Setting \cap Provider = {} /\ Unknown \cap (Setting \cup Provider) = {}
  /\ Detail \cap (Setting \cup Unknown \cup Provider) = {}
  /\ MaxOps \in Nat /\ MaxEdits \in Nat
  /\ None \notin Op

VARIABLES
  on,       \* the fields of config.json that are not at their default
  bad,      \* its sections with a value the schema refuses
  broken,   \* it is not JSON
  keys,     \* the providers with a key in secrets.json
  pc, op, copy, copyBad,  \* of each process: what it does and has read
  cache,    \* FileSecretStore.cache of each process
  held,     \* processes that have read the keys into it
  \* What the code does not know:
  stale,    \* processes whose copy of the config is not the last one
  missed,   \* processes whose cache of the keys is not the file: another has
            \* written it since, or it could not be read
  loose,    \* one of the causes below of a reference without a key
  ops, edits

config == <<on, bad, broken, stale>>
secrets == <<keys, missed>>
memory == <<copy, copyBad>>
bounds == <<ops, edits>>
vars == <<config, secrets, pc, op, memory, cache, held, loose, bounds>>

TypeOK ==
  /\ on \subseteq Field /\ bad \subseteq Section /\ broken \in BOOLEAN
  /\ keys \subseteq Provider
  /\ pc \in [Process -> {"idle", "loaded", "keyed", "saved", "read"}]
  /\ op \in [Process -> Op \cup {None}]
  /\ copy \in [Process -> SUBSET Field]
  /\ copyBad \in [Process -> SUBSET Section]
  /\ cache \in [Process -> SUBSET Provider] /\ held \subseteq Process
  /\ stale \subseteq Process /\ missed \subseteq Process
  /\ loose \in BOOLEAN
  /\ ops \in 0 .. MaxOps /\ edits \in 0 .. MaxEdits

\* Files that commands have written, one after another.
Init ==
  /\ on \in SUBSET Field /\ keys \in SUBSET Provider
  /\ on \cap Provider \subseteq keys \cup EnvKey
  /\ bad = {} /\ broken = FALSE
  /\ pc = [p \in Process |-> "idle"] /\ op = [p \in Process |-> None]
  /\ copy = [p \in Process |-> {}] /\ copyBad = [p \in Process |-> {}]
  /\ cache = [p \in Process |-> {}] /\ held = {}
  /\ stale = {} /\ missed = {} /\ loose = FALSE
  /\ ops = 0 /\ edits = 0

Goto(p, label) == pc' = [pc EXCEPT ![p] = label]

Busy(p) == pc[p] # "idle" \/ p \in held

Put(fields, field, to) == IF to THEN fields \cup {field} ELSE fields \ {field}

-----------------------------------------------------------------------------
(* A command begins *)

\* ConfigLoader.load
Parsed == IF bad # {} THEN {} ELSE on \ Unknown

\* A command has read the file; one that is not JSON ends it.  A prompt of
\* `configure` goes on with the keys read before, other commands are new
\* processes.
Begin(p, o) ==
  /\ pc[p] = "idle" /\ ~broken /\ ops < MaxOps
  /\ p \in held => o.kind = "provider"
  /\ op' = [op EXCEPT ![p] = o]
  /\ Goto(p, "loaded")
  /\ stale' = stale \ {p}
  /\ ops' = ops + 1
  /\ UNCHANGED <<on, bad, broken, secrets, cache, held, edits>>

Overlaps(p) == \E q \in Process \ {p} : Busy(q)

\* A command, whose copy is what the schema makes of the file
Command(p) ==
  \E o \in Orders :
    /\ Begin(p, o)
    /\ copy' = [copy EXCEPT ![p] = Parsed]
    /\ copyBad' = [copyBad EXCEPT ![p] = {}]
    /\ loose' = (loose \/ Overlaps(p) \/ (o.kind = "remove" /\ bad # {}))

\* A request with one section or one field: the file as it is, no schema
Request(p) ==
  \E o \in Requests :
    /\ Begin(p, o)
    /\ copy' = [copy EXCEPT ![p] = on]
    /\ copyBad' = [copyBad EXCEPT ![p] = bad]
    /\ loose' = (loose \/ Overlaps(p)
                  \/ (IF o.kind = "put" THEN o.fields ELSE {o.field})
                       \cap Provider # {})

-----------------------------------------------------------------------------
(* secrets.json: FileSecretStore *)

\* A key that was typed is stored before the config refers to it; one of the
\* environment is referred to without being stored.
Stores(p) == op[p].kind = "provider" /\ op[p].to /\ op[p].field \notin EnvKey

\* load: the file is read once in a process.  One that cannot be read, or that
\* is no JSON, is taken for a file without keys.
ReadKeys(p) ==
  /\ p \notin held
  /\ \/ pc[p] = "loaded" /\ Stores(p)
     \/ pc[p] = "saved" /\ op[p].kind = "remove"
  /\ held' = held \cup {p}
  /\ \/ /\ cache' = [cache EXCEPT ![p] = keys]
        /\ missed' = missed \ {p}
        /\ UNCHANGED loose
     \/ /\ cache' = [cache EXCEPT ![p] = {}]
        /\ missed' = missed \cup {p}
        /\ loose' = TRUE
  /\ UNCHANGED <<config, keys, pc, op, memory, bounds>>

\* (Mutant: the file is written with the new key alone.)
MutWriteKeys(p, ks) ==
  /\ keys' = ks \cap {op[p].field}
  /\ cache' = [cache EXCEPT ![p] = ks]
  /\ missed' = Process \ {p}

WriteKeys(p, ks) ==
  /\ keys' = ks
  /\ cache' = [cache EXCEPT ![p] = ks]
  /\ missed' = Process \ {p}

SetKey(p) ==
  /\ pc[p] = "loaded" /\ Stores(p) /\ p \in held
  /\ WriteKeys(p, cache[p] \cup {op[p].field})
  /\ Goto(p, "keyed")
  /\ UNCHANGED <<config, op, memory, held, loose, bounds>>

RemoveKey(p) ==
  /\ pc[p] = "saved" /\ op[p].kind = "remove" /\ p \in held
  /\ WriteKeys(p, cache[p] \ {op[p].field})
  /\ Goto(p, "read")
  /\ UNCHANGED <<config, op, memory, held, loose, bounds>>

-----------------------------------------------------------------------------
(* config.json *)

EntryFields(q) == {q} \cup {d \in Detail : EntryOf[d] = q}

\* The entry saveProviderConfig makes has a reference to a key, if there is one,
\* what it knows of the provider, and no details.
NewEntry(p) == {q \in {op[p].field} : op[p].to}

\* The planner's provider and model change with a model that was given.
Chosen(p) ==
  IF op[p].planner = "kept" THEN copy[p]
  ELSE IF op[p].planner = "set" THEN copy[p] \cup Choice
  ELSE copy[p] \ Choice

\* (Mutant: a provider is saved with config.ai made anew.)
MutWritten(p) ==
  IF op[p].kind = "put" THEN (copy[p] \ InSection(op[p].section)) \cup op[p].fields
  ELSE IF op[p].kind = "provider" THEN (Chosen(p) \ Provider) \cup NewEntry(p)
  ELSE IF op[p].kind = "remove" THEN copy[p] \ EntryFields(op[p].field)
  ELSE Put(copy[p], op[p].field, op[p].to)

\* What a command or request makes of its copy.
Written(p) ==
  IF op[p].kind = "put" THEN (copy[p] \ InSection(op[p].section)) \cup op[p].fields
  ELSE IF op[p].kind = "provider"
    THEN (Chosen(p) \ EntryFields(op[p].field)) \cup NewEntry(p)
  ELSE IF op[p].kind = "remove" THEN copy[p] \ EntryFields(op[p].field)
  ELSE Put(copy[p], op[p].field, op[p].to)

\* A request may send what the schema refuses, and replaces what was refused.
WrittenBad(p) ==
  IF op[p].kind = "put"
    THEN {copyBad[p] \ {op[p].section}, copyBad[p] \cup {op[p].section}}
  ELSE IF op[p].kind = "key"
    THEN {copyBad[p], copyBad[p] \cup {SectionOf[op[p].field]}}
  ELSE {{}}

WriteConfig(fields, sections, writer) ==
  /\ on' = fields /\ bad' = sections /\ broken' = FALSE
  /\ stale' = stale \cup (Process \ writer)

Forget(p) ==
  /\ op' = [op EXCEPT ![p] = None]
  /\ copy' = [copy EXCEPT ![p] = {}] /\ copyBad' = [copyBad EXCEPT ![p] = {}]

\* A provider may have another to follow it, a removed one has a key to remove;
\* all else is over with its write.
Saved(p) ==
  IF op[p].kind \in {"provider", "remove"}
    THEN Goto(p, "saved") /\ UNCHANGED <<op, memory>>
  ELSE Goto(p, "idle") /\ Forget(p)

\* removeProviderCommand saves only a config that has the provider.  An entry
\* may have neither a key nor a detail, so nothing of it may still be an entry.
HasNothing(p) ==
  op[p].kind = "remove" /\ EntryFields(op[p].field) \cap copy[p] = {}

\* (Mutant: the config does not wait for the key.)
MutSaveConfig(p) ==
  /\ pc[p] \in {"loaded", "keyed"}
  /\ \E sections \in WrittenBad(p) : WriteConfig(Written(p), sections, {p})
  /\ Saved(p)
  /\ UNCHANGED <<secrets, cache, held, loose, bounds>>

SaveConfig(p) ==
  /\ \/ pc[p] = "loaded" /\ ~Stores(p)
     \/ pc[p] = "keyed"
  /\ \E sections \in WrittenBad(p) : WriteConfig(Written(p), sections, {p})
  /\ Saved(p)
  /\ UNCHANGED <<secrets, cache, held, loose, bounds>>

SkipConfig(p) ==
  /\ pc[p] = "loaded" /\ HasNothing(p)
  /\ Goto(p, "saved")
  /\ UNCHANGED <<config, secrets, op, memory, cache, held, loose, bounds>>

\* `configure` goes on to the next provider.
NextProvider(p) ==
  /\ pc[p] = "saved" /\ op[p].kind = "provider"
  /\ Goto(p, "idle") /\ Forget(p)
  /\ UNCHANGED <<config, secrets, cache, held, loose, bounds>>

\* The process ends, by itself or killed at any point.
End(p) ==
  /\ Busy(p)
  /\ Goto(p, "idle")
  /\ Forget(p)
  /\ cache' = [cache EXCEPT ![p] = {}] /\ held' = held \ {p}
  /\ UNCHANGED <<config, secrets, loose, bounds>>

-----------------------------------------------------------------------------
(* Others *)

\* The user edits the file, or has `init --force` write a new one.
Edit ==
  /\ edits < MaxEdits /\ edits' = edits + 1
  /\ \/ \E f \in Field : /\ ~broken
                         /\ WriteConfig(Put(on, f, f \notin on), bad, {})
                         /\ loose' = (loose \/ f \in Provider)
     \/ \E s \in Section : /\ ~broken /\ WriteConfig(on, bad \cup {s}, {})
                           /\ UNCHANGED loose
     \/ /\ broken' = TRUE /\ stale' = Process
        /\ UNCHANGED <<on, bad, loose>>
     \/ WriteConfig({}, {}, {}) /\ UNCHANGED loose
  /\ UNCHANGED <<secrets, pc, op, memory, cache, held, ops>>

\* `providers remove` in another project takes the key of this one too.
RemoveElsewhere ==
  /\ edits < MaxEdits /\ edits' = edits + 1
  /\ \E f \in keys : keys' = keys \ {f}
  /\ missed' = Process /\ loose' = TRUE
  /\ UNCHANGED <<config, pc, op, memory, cache, held, ops>>

Next ==
  \/ \E p \in Process :
       \/ Command(p) \/ Request(p) \/ ReadKeys(p) \/ SetKey(p) \/ RemoveKey(p)
       \/ SaveConfig(p) \/ SkipConfig(p) \/ NextProvider(p) \/ End(p)
  \/ Edit \/ RemoveElsewhere

Spec == Init /\ [][Next]_vars

-----------------------------------------------------------------------------
(* Properties *)

\* A provider the config refers to has its key, wherever a command was killed:
\* the key is written before the reference and removed after it.  The
\* exceptions, which `loose` notes: commands that overlap; a reference written
\* by hand or by a request; a key removed in another project; a command that
\* could not read secrets.json, takes it for empty and may write it back so
\* (secret-store.ts:54); and `providers remove` on a file the schema refuses,
\* which finds no provider in the defaults, so takes the key and leaves the
\* reference (provider-service.ts:19, providers.command.ts:85).
RefsHaveKeys == ~loose => on \cap Provider \subseteq keys \cup EnvKey

\* A writer changes what it is asked to, or what it loses in one of these ways:
\* its copy was read before another write; the schema refused the file or does
\* not know the field (config-loader.ts:48); the request replaced the section
\* (local-server.ts:257); the entry of the provider it saves or removes is made
\* anew or goes as a whole; the planner is to use the provider it saves
\* (provider-service.ts:30-46).  The entries of other providers stay.
ByLoader(p) == op[p].kind \in {"set", "provider", "remove"}

Asks(p, f) ==
  IF op[p].kind = "put" THEN f \in op[p].sent ELSE op[p].field = f

Loses(p, f) ==
  \/ p \in stale
  \/ ByLoader(p) /\ (bad # {} \/ f \in Unknown)
  \/ op[p].kind = "put" /\ SectionOf[f] = op[p].section
  \/ op[p].kind \in {"provider", "remove"} /\ f \in EntryFields(op[p].field)
  \/ op[p].kind = "provider" /\ op[p].planner # "kept" /\ f \in Choice

UnaskedIsKept ==
  [][\A p \in Process : SaveConfig(p) =>
       \A f \in Field : (f \in on) # (f \in on') => Asks(p, f) \/ Loses(p, f)]_vars

\* A process that writes secrets.json takes the key of another provider out of
\* it only if it read the file before someone else wrote it, as `configure` may
\* after a prompt, or could not read it and took it for empty; one's own key is
\* there afterwards (secret-store.ts:40, 54).
KeysAreKept ==
  [][\A p \in Process :
       /\ SetKey(p) => /\ op[p].field \in keys'
                       /\ p \notin missed => keys \subseteq keys'
       /\ RemoveKey(p) => /\ op[p].field \notin keys'
                          /\ p \notin missed => keys \ keys' \subseteq {op[p].field}
    ]_vars

\* docs/ui-and-api.md:196: "`PUT /api/config` merges the provided JSON into the
\* existing config. Omitted fields are preserved."  The fields of a section
\* that was sent are not.
OmittedIsPreserved ==
  [][\A p \in Process : SaveConfig(p) /\ op[p].kind = "put" /\ p \notin stale =>
       \A f \in Field \ op[p].sent : f \in on => f \in on']_vars
=============================================================================
