---------------------------- MODULE TableRegistry ----------------------------
(***************************************************************************)
(* The decision table registry (tables.py) as the MCP server uses it: the  *)
(* registry each server process keeps in memory, and the directory of      *)
(* table files that is loaded at startup and written on registration.      *)
(*                                                                         *)
(* A process handles one request at a time, so nothing else happens in it  *)
(* between the lookup of a table and the receipt that names it.  Other     *)
(* processes, an editor of the files, a crash or a full disk may come      *)
(* between any two steps on the directory: the listing, the reading of     *)
(* each file, and the two halves of Path.write_text, which empties the     *)
(* file before it writes.                                                  *)
(*                                                                         *)
(* An id and a version are sequences of the pieces that "--" separates,    *)
(* because file_name joins the two with "--"; a piece is a sequence of the *)
(* parts that "." separates, because _version_key splits a version there.  *)
(* A table stands for its content and for the hash of it.                  *)
(***************************************************************************)
EXTENDS Naturals, Sequences, SequencesExt, FiniteSets

CONSTANTS
  Processes,           \* the server processes on the directory
  Keys,                \* the pairs of id and version in use
  Tables,              \* the tables
  Parts,               \* the parts of ids and versions between dots
  Number(_),           \* int of a part of digits ...
  NotDigits,           \* ... and what isdigit refuses
  TextRank(_),         \* the place of a version in the order of texts
  FileRank(_),         \* the place of a file name in sorted order
  NoFile,              \* there is no such file
  Torn,                \* the file holds no whole JSON text
  Nothing,             \* no registration is being saved
  MaxCalls,            \* bound on the registrations called
  MaxReceipts,         \* bound on the tables evaluated
  MaxCrashes,          \* bound on the crashes
  MaxFaults            \* bound on the writes that fail and the files edited

ASSUME KeysAssumption ==
  /\ Keys \subseteq [id : Seq(Seq(Parts)), version : Seq(Seq(Parts))]
  /\ \A k \in Keys : k.id # <<>> /\ k.version # <<>>

ASSUME NumberAssumption ==
  \A part \in Parts : Number(part) # NotDigits => Number(part) \in Nat

ASSUME RankAssumption ==
  \A j, k \in Keys :
    /\ TextRank(k.version) \in Nat
    /\ FileRank(k.id \o k.version) \in Nat
    /\ FileRank(j.id \o j.version) = FileRank(k.id \o k.version)
         => j.id \o j.version = k.id \o k.version

ASSUME RegistryBounds ==
  {MaxCalls, MaxReceipts, MaxCrashes, MaxFaults} \subseteq Nat

(* RegisteredTable.file_name *)
FileName(key) == key.id \o key.version
Files == {FileName(k) : k \in Keys}

Entries == [key : Keys, table : Tables]
Call(p, entry) == [by |-> p, key |-> entry.key, table |-> entry.table]
EntriesOf(calledBy) == {[key |-> c.key, table |-> c.table] : c \in calledBy}
Records == [key : Keys, table : Tables, hash : Tables]

ASSUME AbsenceAssumption ==
  Nothing \notin Entries /\ {NoFile, Torn} \cap Records = {} /\ NoFile # Torn

VARIABLES
  phase,       \* "down", "loading", "serving", "saving" or "truncated"
  registry,    \* _registry._tables, in insertion order
  unread,      \* the files a loading process has still to read
  saving,      \* the entry save_one is writing
  run,         \* how often the process was started
  disk,        \* the directory
  registered,  \* history: the register calls that were not refused
  acked,       \* history: those that were answered with persisted: true
  receipts,    \* history: what evaluate_decision answered
  calls, crashes, faults

vars == <<phase, registry, unread, saving, run, disk, registered, acked,
          receipts, calls, crashes, faults>>

counters == <<calls, crashes, faults>>
history == <<registered, acked, receipts>>

-----------------------------------------------------------------------------
Held(p) == ToSet(registry[p])
Holds(p, key) == \E e \in Held(p) : e.key = key
EntryOf(p, key) == CHOOSE e \in Held(p) : e.key = key

(* TableRegistry.register: the registry after it; a conflict is excluded   *)
(* by the callers' guards.                                                 *)
Conflict(p, key, table) == Holds(p, key) /\ EntryOf(p, key).table # table

Registering(p, key, table) ==
  IF Holds(p, key) THEN registry[p]
  ELSE Append(registry[p], [key |-> key, table |-> table])

(* The places of the versions of an id in the registry. *)
VersionsOf(p, id) ==
  {i \in DOMAIN registry[p] : registry[p][i].key.id = id}

(* Python's order of tuples: the first place where they differ decides,    *)
(* and a tuple comes before those that continue it.                        *)
Precedes(a, b) ==
  \E i \in 1..Len(b) :
    /\ \A j \in 1..(i - 1) : j <= Len(a) /\ a[j] = b[j]
    /\ i > Len(a) \/ a[i] < b[i]

(* Every part between dots is a number.  ("--" is in none.)                *)
Dotted(version) ==
  /\ Len(version) = 1
  /\ \A i \in DOMAIN version[1] : Number(version[1][i]) # NotDigits

(* Mutant: versions are ordered as texts. *)
TextKey(version) == << 1, TextRank(version) >>

(* _version_key: (0, numbers) or (1, text); as 0 and 1 differ, the inner   *)
(* tuple need not be kept apart.                                           *)
VersionKey(version) ==
  IF Dotted(version)
  THEN [i \in 1..(Len(version[1]) + 1) |->
          IF i = 1 THEN 0 ELSE Number(version[1][i - 1])]
  ELSE << 1, TextRank(version) >>

(* get without a version: versions() is a stable sort by _version_key, and *)
(* its last element is taken.                                              *)
Latest(p, id) ==
  LET key(i) == VersionKey(registry[p][i].key.version)
  IN  registry[p][CHOOSE i \in VersionsOf(p, id) :
                    \A j \in VersionsOf(p, id) :
                      /\ ~ Precedes(key(i), key(j))
                      /\ Precedes(key(j), key(i)) \/ j <= i]

(* What load lists, and the file it takes next: they are in sorted order.  *)
Listed == {f \in Files : disk[f] # NoFile}

NextFile(p) ==
  CHOOSE f \in unread[p] : \A g \in unread[p] : FileRank(f) <= FileRank(g)

-----------------------------------------------------------------------------
Init ==
  /\ phase = [p \in Processes |-> "down"]
  /\ registry = [p \in Processes |-> <<>>]
  /\ unread = [p \in Processes |-> {}]
  /\ saving = [p \in Processes |-> Nothing]
  /\ run = [p \in Processes |-> 0]
  /\ disk = [f \in Files |-> NoFile]
  /\ registered = {} /\ acked = {} /\ receipts = {}
  /\ calls = 0 /\ crashes = 0 /\ faults = 0

(* main, configure_tables: the directory is listed once. *)
Start(p) ==
  /\ phase[p] = "down"
  /\ run[p] <= MaxCrashes
  /\ run' = [run EXCEPT ![p] = @ + 1]
  /\ unread' = [unread EXCEPT ![p] = Listed]
  /\ phase' = [phase EXCEPT ![p] = IF Listed = {} THEN "serving"
                                   ELSE "loading"]
  /\ UNCHANGED <<registry, saving, disk, history, counters>>

(* One file of load can be registered: it parses, and its id and version   *)
(* are not taken by another content.                                       *)
Registrable(p, file) ==
  disk[file] # Torn /\ ~Conflict(p, disk[file].key, disk[file].table)

LoadRegistering(p, file) == Registering(p, disk[file].key, disk[file].table)

(* Mutant: the recorded hash is not compared. *)
AcceptedUnchecked(p, file) == Registrable(p, file)

(* ... and its table is the one whose hash it records. *)
Accepted(p, file) ==
  Registrable(p, file) /\ disk[file].hash = disk[file].table

LoadFile(p) ==
  /\ phase[p] = "loading"
  /\ LET file == NextFile(p)
         rest == unread[p] \ {file}
     IN  /\ Accepted(p, file)
         /\ registry' = [registry EXCEPT ![p] = LoadRegistering(p, file)]
         /\ unread' = [unread EXCEPT ![p] = rest]
         /\ phase' = [phase EXCEPT ![p] = IF rest = {} THEN "serving" ELSE @]
  /\ UNCHANGED <<saving, run, disk, history, counters>>

(* Mutant: a refused file is passed over and the process serves, while     *)
(* files are still to be read.                                             *)
LoadRefusesServing(p) ==
  /\ phase[p] = "loading"
  /\ ~Accepted(p, NextFile(p))
  /\ phase' = [phase EXCEPT ![p] = "serving"]
  /\ unread' = [unread EXCEPT ![p] = @ \ {NextFile(p)}]
  /\ UNCHANGED <<registry, saving, run, disk, history, counters>>

(* load raises and the server ends.  (The record was registered before its *)
(* hash was compared; the registry ends with the process.)                 *)
LoadRefuses(p) ==
  /\ phase[p] = "loading"
  /\ ~Accepted(p, NextFile(p))
  /\ phase' = [phase EXCEPT ![p] = "down"]
  /\ registry' = [registry EXCEPT ![p] = <<>>]
  /\ unread' = [unread EXCEPT ![p] = {}]
  /\ UNCHANGED <<saving, run, disk, history, counters>>

-----------------------------------------------------------------------------
(* Mutant: the latest content wins instead of being refused. *)
RegisterReplacing(p, key, table) ==
  /\ phase[p] = "serving"
  /\ calls < MaxCalls
  /\ registry' = [registry EXCEPT ![p] =
                    Append(SelectSeq(@, LAMBDA e : e.key # key),
                           [key |-> key, table |-> table])]
  /\ registered' = registered \cup {[by |-> p, key |-> key, table |-> table]}
  /\ saving' = [saving EXCEPT ![p] = [key |-> key, table |-> table]]
  /\ phase' = [phase EXCEPT ![p] = "saving"]
  /\ calls' = calls + 1
  /\ UNCHANGED <<unread, run, disk, acked, receipts, crashes, faults>>

(* register_decision_table up to save_one.  A conflict is answered with an *)
(* error and changes nothing; the same content is saved again.             *)
Register(p, key, table) ==
  /\ phase[p] = "serving"
  /\ calls < MaxCalls
  /\ ~Conflict(p, key, table)
  /\ registry' = [registry EXCEPT ![p] = Registering(p, key, table)]
  /\ registered' = registered \cup {[by |-> p, key |-> key, table |-> table]}
  /\ saving' = [saving EXCEPT ![p] = [key |-> key, table |-> table]]
  /\ phase' = [phase EXCEPT ![p] = "saving"]
  /\ calls' = calls + 1
  /\ UNCHANGED <<unread, run, disk, acked, receipts, crashes, faults>>

(* write_text opens the file, which empties it ... *)
Truncate(p) ==
  /\ phase[p] = "saving"
  /\ disk' = [disk EXCEPT ![FileName(saving[p].key)] = Torn]
  /\ phase' = [phase EXCEPT ![p] = "truncated"]
  /\ UNCHANGED <<registry, unread, saving, run, history, counters>>

(* Another process has the file open, or wrote it since this one did: each *)
(* writes from the beginning, and the end of a longer text stays.          *)
Overlaps(p) ==
  LET file == FileName(saving[p].key)
  IN  \/ disk[file] # Torn
      \/ \E q \in Processes \ {p} :
           phase[q] = "truncated" /\ FileName(saving[q].key) = file

(* ... and then writes the record; the request is answered. *)
Write(p) ==
  /\ phase[p] = "truncated"
  /\ \E content \in
          {[key |-> saving[p].key, table |-> saving[p].table,
            hash |-> saving[p].table]}
            \cup {torn \in {Torn} : Overlaps(p)} :
       disk' = [disk EXCEPT ![FileName(saving[p].key)] = content]
  /\ acked' = acked \cup {Call(p, saving[p])}
  /\ saving' = [saving EXCEPT ![p] = Nothing]
  /\ phase' = [phase EXCEPT ![p] = "serving"]
  /\ UNCHANGED <<registry, unread, run, registered, receipts, counters>>

(* Mutant: a failed save is answered like a successful one. *)
SaveFailsAcknowledged(p) ==
  /\ phase[p] \in {"saving", "truncated"}
  /\ faults < MaxFaults
  /\ faults' = faults + 1
  /\ acked' = acked \cup {Call(p, saving[p])}
  /\ saving' = [saving EXCEPT ![p] = Nothing]
  /\ phase' = [phase EXCEPT ![p] = "serving"]
  /\ UNCHANGED <<registry, unread, run, disk, registered, receipts, calls,
                 crashes>>

(* The file cannot be opened or written: the client gets an error, the     *)
(* registry keeps the entry.                                               *)
SaveFails(p) ==
  /\ phase[p] \in {"saving", "truncated"}
  /\ faults < MaxFaults
  /\ faults' = faults + 1
  /\ saving' = [saving EXCEPT ![p] = Nothing]
  /\ phase' = [phase EXCEPT ![p] = "serving"]
  /\ UNCHANGED <<registry, unread, run, disk, history, calls, crashes>>

(* evaluate_decision with a table_id, without and with a table_version.    *)
Answer(p, entry, latest) ==
  /\ phase[p] = "serving"
  /\ Cardinality(receipts) < MaxReceipts
  /\ receipts' = receipts \cup
       {[process |-> p, run |-> run[p], key |-> entry.key,
         table |-> entry.table, latest |-> latest,
         acked |-> {e \in EntriesOf(acked) : e.key.id = entry.key.id}]}
  /\ UNCHANGED <<phase, registry, unread, saving, run, disk, registered,
                 acked, counters>>

EvaluateVersion(p, key) ==
  /\ Holds(p, key)
  /\ Answer(p, EntryOf(p, key), FALSE)

EvaluateLatest(p, id) ==
  /\ \E e \in Held(p) : e.key.id = id
  /\ Answer(p, Latest(p, id), TRUE)

(* The process ends, wherever it is; its memory is gone. *)
Crash(p) ==
  /\ phase[p] # "down"
  /\ crashes < MaxCrashes
  /\ crashes' = crashes + 1
  /\ phase' = [phase EXCEPT ![p] = "down"]
  /\ registry' = [registry EXCEPT ![p] = <<>>]
  /\ unread' = [unread EXCEPT ![p] = {}]
  /\ saving' = [saving EXCEPT ![p] = Nothing]
  /\ UNCHANGED <<run, disk, history, calls, faults>>

(* Someone changes the table in a file and leaves its hash as it is. *)
Edit(file, table) ==
  /\ disk[file] \in Records
  /\ disk[file].table # table
  /\ faults < MaxFaults
  /\ faults' = faults + 1
  /\ disk' = [disk EXCEPT ![file].table = table]
  /\ UNCHANGED <<phase, registry, unread, saving, run, history, calls, crashes>>

ProcessStep(p) ==
  \/ Start(p)
  \/ LoadFile(p)
  \/ LoadRefuses(p)
  \/ \E key \in Keys, table \in Tables : Register(p, key, table)
  \/ Truncate(p)
  \/ Write(p)
  \/ SaveFails(p)
  \/ \E key \in Keys : EvaluateVersion(p, key)
  \/ \E id \in {k.id : k \in Keys} : EvaluateLatest(p, id)
  \/ Crash(p)

Next ==
  \/ \E p \in Processes : ProcessStep(p)
  \/ \E file \in Files, table \in Tables : Edit(file, table)

Spec == Init /\ [][Next]_vars

-----------------------------------------------------------------------------
Serves(p) == phase[p] \in {"serving", "saving", "truncated"}

(* Every variable is of its kind, and what a process has in hand fits the  *)
(* phase it is in.                                                         *)
TypeOK ==
  /\ phase \in [Processes -> {"down", "loading", "serving", "saving",
                              "truncated"}]
  /\ disk \in [Files -> Records \cup {NoFile, Torn}]
  /\ run \in [Processes -> Nat]
  /\ \A p \in Processes :
       /\ Held(p) \subseteq Entries
       /\ saving[p] \in Entries \cup {Nothing}
       /\ saving[p] # Nothing <=> phase[p] \in {"saving", "truncated"}
       /\ unread[p] # {} <=> phase[p] = "loading"
       /\ unread[p] \subseteq Files
  /\ EntriesOf(registered) \subseteq Entries /\ acked \subseteq registered
  /\ calls \in 0..MaxCalls /\ crashes \in 0..MaxCrashes
  /\ faults \in 0..MaxFaults

(* While a process runs, every receipt it issued resolves to the table     *)
(* that was applied: the id and version it names are held once, with that  *)
(* content (register, find_by_hash).                                       *)
ReceiptsResolve ==
  \A r \in receipts :
    r.run = run[r.process] /\ phase[r.process] # "down" =>
      {e \in Held(r.process) : e.key = r.key}
        = {[key |-> r.key, table |-> r.table]}

(* A process serves only tables that somebody registered under that id and *)
(* version, whatever was cut short, overwritten or edited in the directory *)
(* before it started (load).                                               *)
ServedTablesWereRegistered ==
  \A p \in Processes :
    Serves(p) => Held(p) \subseteq EntriesOf(registered)

(* As long as only one process registers, what it answered with persisted  *)
(* it serves, with the content registered, through any crash, restart and  *)
(* failed save of its own, and through anyone's edits of the files, unless *)
(* a registration of another id and version went to the same file          *)
(* (file_name, save_one, load).                                            *)
OwnFile(entry) ==
  \A c \in registered : FileName(c.key) = FileName(entry.key) => c.key = entry.key

AcknowledgedIsServed ==
  \A p \in Processes :
    Serves(p) /\ (\A c \in registered : c.by = p)
      => {e \in EntriesOf(acked) : OwnFile(e)} \subseteq Held(p)

(* The order that TableRegistry promises: dotted numbers compare as        *)
(* numbers, place by place, and are below whatever is no dotted number.    *)
Higher(v, w) ==
  \/ ~ Dotted(v) /\ Dotted(w)
  \/ ~ Dotted(v) /\ ~ Dotted(w) /\ TextRank(w) < TextRank(v)
  \/ /\ Dotted(v) /\ Dotted(w)
     /\ \E n \in 1..Len(v[1]) :
          /\ \A j \in 1..(n - 1) :
               j <= Len(w[1]) /\ Number(v[1][j]) = Number(w[1][j])
          /\ n <= Len(w[1]) => Number(w[1][n]) < Number(v[1][n])

(* A version that was superseded is not applied unasked: as long as only   *)
(* one process registers, no evaluation of its that names no version uses  *)
(* one below a version it had answered with persisted, whatever the order  *)
(* of registration and loading, and through any crash, restart, failed     *)
(* save and edit in between (get, versions, save_one, load).               *)
SupersededIsNotApplied ==
  \A r \in receipts :
    r.latest /\ (\A c \in registered : c.by = r.process) =>
      \A e \in r.acked :
        OwnFile(e) => ~ Higher(e.key.version, r.key.version)

(* "Different content under an existing id and version is refused, so a    *)
(* version means one thing forever" (docs/user/decision-tables.md): all    *)
(* receipts that name an id and version name one table.                    *)
VersionMeansOneThing ==
  \A r, s \in receipts : r.key = s.key => r.table = s.table
=============================================================================
