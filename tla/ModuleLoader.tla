----------------------------- MODULE ModuleLoader -----------------------------
(* Evaluator::import_module: the cache of module records, the modules that are *)
(* being evaluated inside one another, and what an import statement takes out  *)
(* of a record. Loading is synchronous: it is one stack of evaluations, on top *)
(* of the script or of one of its callbacks.                                   *)
EXTENDS Integers, Sequences

CONSTANTS
  Files,      \* modules written in Swazi: files, and the embedded ones
  Packages,   \* those of them that a vendor package has for its entry
  Natives,    \* modules that are native code: built in, or addons
  Broken,     \* files whose text does not parse
  MaxRecords  \* bound on the records ever created

ASSUME LoaderAssumption ==
  /\ Files \cap Natives = {} /\ Packages \subseteq Files /\ Broken \subseteq Files
  /\ MaxRecords \in Nat

VARIABLES
  cache,   \* module_cache: the record of a key, 0 when there is none
  recs,    \* every ModuleRecord created, with what its exports hold
  stack,   \* the evaluations under way, the script's own code (record 0) first
  seen     \* history: what each import statement got

vars == <<cache, recs, stack, seen>>

\* The key of a module in the cache. What an import names is resolved to a file,
\* whose path is the key; but the entry of a package that is imported by the name
\* of the package has a key of its own, beside the one of its path.
Keys ==
  [way : {"path"}, file : Files] \cup [way : {"package"}, file : Packages]
    \cup [way : {"native"}, file : Natives]

Frame(r) == [rec |-> r, at |-> "running"]
Record(k, st) == [key |-> k, state |-> st, whole |-> st = "loaded"]

Init ==
  /\ cache = [k \in Keys |-> 0] /\ recs = <<>>
  /\ stack = <<Frame(0)>> /\ seen = {}

Top == stack[Len(stack)]
Running == Top.at = "running"
Room == Len(recs) < MaxRecords
Beneath == SubSeq(stack, 1, Len(stack) - 1)
Raised(s) == [s EXCEPT ![Len(s)].at = "raising"]

\* The import statement copies into its environment what the exports hold now.
Take(by, rs, r, loading) ==
  seen' = seen \cup
    {[by |-> by, rec |-> r, whole |-> rs[r].whole,
      cyclic |-> \E i \in DOMAIN loading : loading[i].rec = r]}

\* The key has a record, finished or not: its exports as they are.
ImportCached(k) ==
  /\ Running /\ cache[k] # 0
  /\ Take(Top.rec, recs, cache[k], stack)
  /\ UNCHANGED <<cache, recs, stack>>

\* Mutant: the module is evaluated before its record is put into the cache.
ImportFileLate(k) ==
  /\ Running /\ cache[k] = 0 /\ k.file \in Files \ Broken /\ Room
  /\ recs' = Append(recs, Record(k, "loading"))
  /\ stack' = Append(stack, Frame(Len(recs')))
  /\ UNCHANGED <<cache, seen>>

\* A new record, put into the cache before the file is evaluated.
ImportFile(k) ==
  /\ Running /\ cache[k] = 0 /\ k.file \in Files \ Broken /\ Room
  /\ recs' = Append(recs, Record(k, "loading"))
  /\ cache' = [cache EXCEPT ![k] = Len(recs')]
  /\ stack' = Append(stack, Frame(Len(recs')))
  /\ UNCHANGED seen

\* The file does not exist or cannot be opened: its record goes again.
ImportUnreadable(k) ==
  /\ Running /\ cache[k] = 0 /\ k.file \in Files
  /\ stack' = Raised(stack)
  /\ UNCHANGED <<cache, recs, seen>>

\* The lexer or the parser throws. They run before the block that erases the
\* record of a module that fails.
ImportUnparsable(k) ==
  /\ Running /\ cache[k] = 0 /\ k.file \in Broken /\ Room
  /\ recs' = Append(recs, Record(k, "loading"))
  /\ cache' = [cache EXCEPT ![k] = Len(recs')]
  /\ stack' = Raised(stack)
  /\ UNCHANGED seen

\* A built-in module's factory runs at once and its exports replace the
\* record's; an addon is put into the cache when it is loaded.
ImportNative(k) ==
  /\ Running /\ cache[k] = 0 /\ k.file \in Natives /\ Room
  /\ recs' = Append(recs, Record(k, "loaded"))
  /\ cache' = [cache EXCEPT ![k] = Len(recs')]
  /\ Take(Top.rec, recs', Len(recs'), stack)
  /\ UNCHANGED stack

\* An addon that cannot be loaded leaves no record.
AddonFails(k) ==
  /\ Running /\ cache[k] = 0 /\ k.file \in Natives
  /\ stack' = Raised(stack)
  /\ UNCHANGED <<cache, recs, seen>>

\* The export statement fills the exports and is the last that is evaluated (a
\* file without one ends by itself); the import that waits goes on.
Finish ==
  LET r == Top.rec IN
  /\ Running /\ r # 0
  /\ recs' = [recs EXCEPT ![r] = Record(@.key, "loaded")]
  /\ stack' = Beneath
  /\ Take(Beneath[Len(Beneath)].rec, recs', r, Beneath)
  /\ UNCHANGED cache

\* A statement throws, or the default export names nothing.
Throw ==
  /\ Running
  /\ stack' = Raised(stack)
  /\ UNCHANGED <<cache, recs, seen>>

\* The exception is caught around the import or the statement that threw.
Caught ==
  /\ Top.at = "raising"
  /\ stack' = [stack EXCEPT ![Len(stack)].at = "running"]
  /\ UNCHANGED <<cache, recs, seen>>

\* It leaves the module: the record is erased, the importer gets the exception.
Unwind ==
  /\ Top.at = "raising" /\ Top.rec # 0
  /\ cache' = [cache EXCEPT ![recs[Top.rec].key] = 0]
  /\ stack' = Raised(Beneath)
  /\ UNCHANGED <<recs, seen>>

Next ==
  \/ \E k \in Keys :
       \/ ImportCached(k) \/ ImportFile(k) \/ ImportUnreadable(k)
       \/ ImportUnparsable(k) \/ ImportNative(k) \/ AddonFails(k)
  \/ Finish \/ Throw \/ Caught \/ Unwind

Spec == Init /\ [][Next]_vars
-------------------------------------------------------------------------------
Ids == DOMAIN recs

\* The types of the variables.
TypeOK ==
  /\ cache \in [Keys -> 0..MaxRecords]
  /\ recs \in Seq([key : Keys, state : {"loading", "loaded"}, whole : BOOLEAN])
  /\ Len(recs) <= MaxRecords
  /\ stack \in Seq([rec : 0..MaxRecords, at : {"running", "raising"}])
  /\ stack # <<>>
  /\ seen \subseteq [by : 0..MaxRecords, rec : 1..MaxRecords, whole : BOOLEAN,
                     cyclic : BOOLEAN]

\* Two keys are of one module: they resolve to one file, and not by the name of
\* a package and by the path of its entry, which make two modules of the file.
OneModule(k, l) == k.file = l.file /\ (k.file \in Packages => k.way = l.way)

\* The cache of import_module keeps a file from being evaluated inside its own
\* evaluation, however its imports lead back to it; the entry of a package may
\* be, once, when the package imports itself back by path. (The script has no
\* record: an import of its file evaluates it as a module like any other.)
NoReentry ==
  \A i, j \in 2..Len(stack) :
    OneModule(recs[stack[i].rec].key, recs[stack[j].rec].key) => i = j

\* Two importers of a file that loaded have the same instance of it: a record
\* that is in use is not replaced by another, also when loads around it fail.
\* Only the entry of a package can have a second one, by its other key.
OneInstance ==
  \A r, q \in Ids :
    recs[r].state = "loaded" /\ recs[q].state = "loaded" /\ OneModule(recs[r].key, recs[q].key)
      => r = q

\* A record in the cache is loaded, is being evaluated now, or is what is left of
\* a file that does not parse.
CacheIsLive ==
  \A k \in Keys : cache[k] # 0 =>
    /\ recs[cache[k]].key = k
    /\ \/ recs[cache[k]].state = "loaded"
       \/ \E i \in DOMAIN stack : stack[i].rec = cache[k]
       \/ k.file \in Broken

\* What the comment over the catch block of import_module promises ("avoid
\* broken modules being reused"): an import gets all that its module exports,
\* unless it is made while that module is being evaluated. The exception is a
\* file that does not parse: it fails its first import, and gives the later ones
\* its empty exports.
ImportsAreWhole ==
  \A b \in seen : b.whole \/ b.cyclic \/ recs[b.rec].key.file \in Broken

\* All that the importers of modules rely on.
ModulesAreWhole == NoReentry /\ OneInstance /\ CacheIsLive /\ ImportsAreWhole
===============================================================================
