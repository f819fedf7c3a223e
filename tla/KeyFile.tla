------------------------------ MODULE KeyFile ------------------------------
(***************************************************************************)
(* bootstrap.py and identity.py: processes that start on one volume load   *)
(* the instance key, or generate it when the file is not there yet.  Runs  *)
(* of `pip-node keygen` on the volume (cli.py) create it or overwrite it.  *)
(*                                                                         *)
(* exists, open with O_TRUNC, write and read are separate system calls;    *)
(* other processes act, and a process may die, between any two of them.    *)
(***************************************************************************)
EXTENDS Integers, FiniteSets

CONSTANTS
    Procs,          \* the processes that run a node on the volume
    Keygens,        \* the places `pip-node keygen` is run from
    MaxCrashes,     \* bound on processes that die or are stopped
    MaxForced       \* bound on runs of keygen with --force

All == Procs \cup Keygens

ASSUME KeyFileAssumption == IsFiniteSet(All) /\ Procs \cap Keygens = {}

VARIABLES
    file,           \* the key file: Absent, Empty, or the key in it
    step,           \* step[p]: where p is in build_node_from_settings
    key,            \* key[p]: the key pair p generated or loaded
    generated,      \* keys generated so far; each is a new one
    used,           \* observer: the keys some node has run with
    overlapped,     \* observer: two processes found no file at the same time
    forced,         \* observer: how often keygen took the place of a file
    crashes

vars == <<file, step, key, generated, used, overlapped, forced, crashes>>

Absent == -1
Empty == 0      \* and no key yet, for a process; keys are 1, 2, ...

TypeOK ==
    /\ file \in Nat \cup {Absent}
    /\ step \in [All -> {"down", "load", "open", "write", "up"}]
    /\ key \in [All -> Nat]
    /\ generated \in Nat
    /\ used \subseteq Nat \ {Empty}
    /\ overlapped \in BOOLEAN
    /\ forced \in Nat
    /\ crashes \in Nat

Init ==
    /\ file = Absent
    /\ step = [p \in All |-> "down"]
    /\ key = [p \in All |-> Empty]
    /\ generated = 0
    /\ used = {}
    /\ overlapped = FALSE
    /\ forced = 0
    /\ crashes = 0

\* What a process does at its start, once it knows whether the file exists.
ToLoad(p) ==
    /\ step' = [step EXCEPT ![p] = "load"]
    /\ UNCHANGED <<file, key, generated, used, overlapped, forced, crashes>>

ToCreate(p) ==
    /\ step' = [step EXCEPT ![p] = "open"]
    /\ generated' = generated + 1
    /\ key' = [key EXCEPT ![p] = generated + 1]
    /\ overlapped' = (overlapped \/ \E q \in All : step[q] = "open")
    /\ UNCHANGED <<file, used, crashes>>

\* Faulty variants: the check for the file is missing, or asks the wrong way.
StartLoading(p) == step[p] = "down" /\ ToLoad(p)
StartCreating(p) == step[p] = "down" /\ ToCreate(p) /\ UNCHANGED forced

\* key_path.exists(), and KeyPair.generate if it does not.
Start(p) ==
    /\ step[p] = "down"
    /\ \/ file # Absent /\ ToLoad(p)
       \/ file = Absent /\ ToCreate(p) /\ UNCHANGED forced

\* Faulty variant: a file that is there is overwritten without --force.
KeygenAnyway(t) == step[t] = "down" /\ ToCreate(t) /\ UNCHANGED forced

\* out.exists() and --force: otherwise a file that is there is left alone.
Keygen(t) ==
    /\ step[t] = "down" /\ ToCreate(t)
    /\ \/ file = Absent /\ UNCHANGED forced
       \/ file # Absent /\ forced < MaxForced /\ forced' = forced + 1

\* os.open with O_CREAT and O_TRUNC: whatever is in the file is gone.
Open(p) ==
    /\ step[p] = "open"
    /\ file' = Empty
    /\ step' = [step EXCEPT ![p] = "write"]
    /\ UNCHANGED <<key, generated, used, overlapped, forced, crashes>>

\* os.write at the start of the file; a node runs now, and keygen is done.
Write(p) ==
    /\ step[p] = "write"
    /\ file' = key[p]
    /\ \/ /\ p \in Procs
          /\ step' = [step EXCEPT ![p] = "up"]
          /\ used' = used \cup {key[p]}
          /\ UNCHANGED key
       \/ /\ p \in Keygens
          /\ step' = [step EXCEPT ![p] = "down"]
          /\ key' = [key EXCEPT ![p] = Empty]
          /\ UNCHANGED used
    /\ UNCHANGED <<generated, overlapped, forced, crashes>>

\* Faulty variant: an empty file is taken for a missing one.
LoadOrCreate(p) ==
    /\ step[p] = "load"
    /\ \/ file = Empty /\ ToCreate(p) /\ UNCHANGED forced
       \/ /\ file > Empty
          /\ key' = [key EXCEPT ![p] = file] /\ step' = [step EXCEPT ![p] = "up"]
          /\ used' = used \cup {file}
          /\ UNCHANGED <<file, generated, overlapped, forced, crashes>>

\* Faulty variant: whatever is in the file is taken for a key.
LoadUnchecked(p) ==
    /\ step[p] = "load"
    /\ key' = [key EXCEPT ![p] = file]
    /\ step' = [step EXCEPT ![p] = "up"]
    /\ used' = used \cup {file}
    /\ UNCHANGED <<file, generated, overlapped, forced, crashes>>

\* KeyPair.load: an empty file is no 32-byte seed, and the process ends.
Load(p) ==
    /\ step[p] = "load"
    /\ \/ /\ file = Empty
          /\ step' = [step EXCEPT ![p] = "down"]
          /\ UNCHANGED <<key, used>>
       \/ /\ file > Empty
          /\ key' = [key EXCEPT ![p] = file]
          /\ step' = [step EXCEPT ![p] = "up"]
          /\ used' = used \cup {file}
    /\ UNCHANGED <<file, generated, overlapped, forced, crashes>>

\* The process dies or its container is stopped; it is started again.
Crash(p) ==
    /\ step[p] # "down" /\ crashes < MaxCrashes
    /\ step' = [step EXCEPT ![p] = "down"]
    /\ key' = [key EXCEPT ![p] = Empty]
    /\ crashes' = crashes + 1
    /\ UNCHANGED <<file, generated, used, overlapped, forced>>

Save(p) == Open(p) \/ Write(p)

Next ==
    \/ \E p \in Procs : Start(p) \/ Load(p)
    \/ \E t \in Keygens : Keygen(t)
    \/ \E p \in All : Save(p) \/ Crash(p)

Spec == Init /\ [][Next]_vars

\* docker-compose.yml restarts what ended, and processes keep running.  Nobody
\* has to run keygen.
FairSpec ==
    /\ Spec
    /\ \A p \in Procs : WF_vars(Start(p) \/ Load(p))
    /\ \A p \in All : WF_vars(Save(p))

-----------------------------------------------------------------------------
(* Properties *)

\* docs/DEPLOYMENT.md:34,53,99, for processes that do not create the key at
\* the same time and a key nobody replaces by force: every identity a node ever
\* ran with, before or after any crash, is the one on the volume, so there is
\* only one.  In particular keygen without --force leaves a file alone.
OneIdentity == ~overlapped /\ forced = 0 => \A k \in used : file = k

\* Even when all processes race for an empty volume, die on the way and keys are
\* replaced, nodes never run with more identities than there are processes and
\* replacements.
IdentitiesBounded == Cardinality(used) <= Cardinality(All) + forced

\* The file was truncated by a process that died before it wrote, and no other
\* process is about to write it.
Torn == file = Empty /\ \A p \in All : step[p] \notin {"open", "write"}

\* Every node gets to run with some key, unless the writer of the file died at
\* the wrong moment: then nobody can load it until keygen replaces it by force.
EventuallyUp == \A p \in Procs : step[p] # "up" ~> step[p] = "up" \/ Torn
=============================================================================
