---------------------------- MODULE LibraryProofs ----------------------------
\* Proofs about the loader of modules and the emitter, and what is typed in the
\* whole program that MCLibrary describes. Modules are evaluated once and imported
\* whole, for any files and packages and however they import one another and fail,
\* but for what a file that does not parse leaves; listeners may rely on what they registered for, for any
\* functions, events and number of calls, whatever the script and its listeners do
\* between two callbacks.
EXTENDS HttpProofs, FiniteSetTheorems

-----------------------------------------------------------------------------
\* The loader: records of modules, frames of their evaluation, imports.
Recs == [key : Keys, state : {"loading", "loaded"}, whole : BOOLEAN]
Frames == [rec : 0..MaxRecords, at : {"running", "raising"}]

Imports ==
  [by : 0..MaxRecords, rec : 1..MaxRecords, whole : BOOLEAN, cyclic : BOOLEAN]

\* The script's frame is the first; each other one evaluates a record of its own
\* that is in the cache and not finished.
StackInv ==
  /\ stack[1].rec = 0
  /\ \A i \in DOMAIN stack : i # 1 =>
       /\ stack[i].rec \in DOMAIN recs
       /\ recs[stack[i].rec].state = "loading"
       /\ cache[recs[stack[i].rec].key] = stack[i].rec
       /\ \A j \in DOMAIN stack : stack[j].rec = stack[i].rec => j = i

\* A key's record is the key's, and finished, being evaluated, or of a file that
\* does not parse.
CacheInv ==
  \A n \in Keys : cache[n] # 0 =>
    /\ cache[n] \in DOMAIN recs /\ recs[cache[n]].key = n
    /\ \/ recs[cache[n]].state = "loaded"
       \/ \E i \in DOMAIN stack : stack[i].rec = cache[n]
       \/ n.file \in Broken

\* A finished record has all its exports and stays its key's.
LoadedInv ==
  \A r \in DOMAIN recs : recs[r].state = "loaded" =>
    recs[r].whole /\ cache[recs[r].key] = r

\* An import took what there is of a record that stays.
SeenInv ==
  \A b \in seen :
    b.rec \in DOMAIN recs /\ (b.whole \/ b.cyclic \/ recs[b.rec].key.file \in Broken)

LoaderInv == TypeOK /\ StackInv /\ CacheInv /\ LoadedInv /\ SeenInv

USE LoaderAssumption

\* The frame that is evaluated lies on the others; none but the first is the
\* script's.
LEMMA StackShape ==
  ASSUME LoaderInv
  PROVE  /\ stack \in Seq(Frames) /\ Len(stack) \in Nat /\ Len(stack) >= 1
         /\ DOMAIN stack = 1..Len(stack) /\ Len(stack) \in DOMAIN stack
         /\ Top \in Frames
         /\ Top.rec # 0 =>
              /\ Len(stack) > 1 /\ Beneath \in Seq(Frames)
              /\ Len(Beneath) = Len(stack) - 1
              /\ DOMAIN Beneath = 1..(Len(stack) - 1)
              /\ \A i \in DOMAIN Beneath : Beneath[i] = stack[i]
              /\ Beneath # <<>>
<1>1. stack \in Seq(Frames) /\ stack # <<>> /\ stack[1].rec = 0
  BY DEF LoaderInv, TypeOK, StackInv, Frames
<1>2. Len(stack) \in Nat /\ Len(stack) >= 1 /\ DOMAIN stack = 1..Len(stack)
      /\ Len(stack) \in DOMAIN stack
  BY <1>1
<1>3. Top \in Frames
  BY <1>1, <1>2 DEF Top
<1>4. ASSUME Top.rec # 0
      PROVE  /\ Len(stack) > 1 /\ Beneath \in Seq(Frames)
             /\ Len(Beneath) = Len(stack) - 1
             /\ DOMAIN Beneath = 1..(Len(stack) - 1)
             /\ \A i \in DOMAIN Beneath : Beneath[i] = stack[i]
             /\ Beneath # <<>>
  <2>1. Len(stack) > 1
    BY <1>1, <1>2, <1>4 DEF Top
  <2>2. \A i \in 1..(Len(stack) - 1) : stack[i] \in Frames
    BY <1>1, <1>2
  <2>3. /\ Beneath \in Seq(Frames) /\ Len(Beneath) = Len(stack) - 1
        /\ \A i \in 1..(Len(stack) - 1) : Beneath[i] = stack[i]
    BY <1>2, <2>1, <2>2, SubSeqProperties DEF Beneath
  <2> QED BY <1>2, <2>1, <2>3
<1> QED BY <1>1, <1>2, <1>3, <1>4

\* A new record at the end leaves the others as they are.
LEMMA NewRecord ==
  ASSUME LoaderInv, NEW n \in Keys, NEW st \in {"loading", "loaded"}, Room,
         recs' = Append(recs, Record(n, st))
  PROVE  /\ recs' \in Seq(Recs) /\ Len(recs') = Len(recs) + 1 /\ Len(recs') \in 1..MaxRecords
         /\ DOMAIN recs' = DOMAIN recs \cup {Len(recs')} /\ Len(recs') \notin DOMAIN recs
         /\ DOMAIN recs \subseteq 1..MaxRecords
         /\ recs'[Len(recs')] = [key |-> n, state |-> st, whole |-> st = "loaded"]
         /\ \A r \in DOMAIN recs : recs'[r] = recs[r] /\ recs[r] \in Recs
<1>1. recs \in Seq(Recs) /\ Len(recs) < MaxRecords /\ MaxRecords \in Nat
  BY DEF LoaderInv, TypeOK, Room, Recs, LoaderAssumption
<1>2. Record(n, st) \in Recs
  BY DEF Record, Recs
<1> QED BY <1>1, <1>2 DEF Record

\* The records of the frames decide, not whether a frame is raising.
LEMMA SameFrames ==
  ASSUME LoaderInv, UNCHANGED <<cache, recs, seen>>, stack' \in Seq(Frames),
         DOMAIN stack' = DOMAIN stack, \A i \in DOMAIN stack : stack'[i].rec = stack[i].rec
  PROVE  LoaderInv'
<1>1. stack \in Seq(Frames) /\ DOMAIN stack = 1..Len(stack) /\ Len(stack) \in Nat
      /\ Len(stack) >= 1
  BY StackShape
<1>2. 1 \in DOMAIN stack /\ stack' # <<>>
  BY <1>1
<1>3. TypeOK'
  BY <1>2 DEF LoaderInv, TypeOK, Frames
<1>4. StackInv' /\ CacheInv' /\ LoadedInv' /\ SeenInv'
  BY <1>2 DEF LoaderInv, StackInv, CacheInv, LoadedInv, SeenInv
<1> QED BY <1>3, <1>4 DEF LoaderInv

\* Changing how the top frame stands changes no frame's record.
LEMMA TopChanged ==
  ASSUME NEW s \in Seq(Frames), s # <<>>, NEW a \in {"running", "raising"},
         NEW t, t = [s EXCEPT ![Len(s)].at = a]
  PROVE  /\ t \in Seq(Frames) /\ Len(t) = Len(s) /\ DOMAIN t = DOMAIN s
         /\ \A i \in DOMAIN s : t[i].rec = s[i].rec
<1>1. Len(s) \in Nat /\ DOMAIN s = 1..Len(s) /\ Len(s) \in DOMAIN s
  BY SMT
<1>2. s[Len(s)] \in Frames
  BY <1>1
<1>3. [s[Len(s)] EXCEPT !.at = a] \in Frames
      /\ [s[Len(s)] EXCEPT !.at = a].rec = s[Len(s)].rec
  BY <1>2 DEF Frames
<1>4. t = [s EXCEPT ![Len(s)] = [s[Len(s)] EXCEPT !.at = a]]
  BY <1>1
<1> QED BY <1>1, <1>3, <1>4

\* Raising and catching exceptions.
LEMMA RaiseStep ==
  ASSUME LoaderInv, \/ Throw \/ Caught
               \/ \E n \in Keys : ImportUnreadable(n) \/ AddonFails(n)
  PROVE  LoaderInv'
<1>1. /\ UNCHANGED <<cache, recs, seen>>
      /\ \E a \in {"running", "raising"} : stack' = [stack EXCEPT ![Len(stack)].at = a]
  BY DEF Throw, Caught, ImportUnreadable, AddonFails, Raised
<1>2. PICK a \in {"running", "raising"} : stack' = [stack EXCEPT ![Len(stack)].at = a]
  BY <1>1
<1>3. stack \in Seq(Frames) /\ stack # <<>>
  BY DEF LoaderInv, TypeOK, Frames
<1>4. /\ stack' \in Seq(Frames) /\ DOMAIN stack' = DOMAIN stack
      /\ \A i \in DOMAIN stack : stack'[i].rec = stack[i].rec
  BY <1>2, <1>3, TopChanged
<1> QED BY <1>1, <1>4, SameFrames

\* The imports of before stand, as their records keep their keys.
LEMMA SeenStays ==
  ASSUME LoaderInv, UNCHANGED seen, DOMAIN recs \subseteq DOMAIN recs',
         \A q \in DOMAIN recs : recs'[q].key = recs[q].key
  PROVE  SeenInv'
BY DEF LoaderInv, SeenInv

\* An import statement that gets all of a record, or is made within a cycle, or
\* finds the record of a file that does not parse.
LEMMA TakeStep ==
  ASSUME LoaderInv, NEW b \in 0..MaxRecords, NEW r \in 1..MaxRecords, NEW w \in BOOLEAN,
         NEW c \in BOOLEAN, r \in DOMAIN recs', w \/ c \/ recs'[r].key.file \in Broken,
         DOMAIN recs \subseteq DOMAIN recs',
         \A q \in DOMAIN recs : recs'[q].key = recs[q].key,
         seen' = seen \cup {[by |-> b, rec |-> r, whole |-> w, cyclic |-> c]}
  PROVE  seen' \subseteq Imports /\ SeenInv'
<1>1. seen \subseteq Imports
  BY DEF LoaderInv, TypeOK, Imports
<1>2. [by |-> b, rec |-> r, whole |-> w, cyclic |-> c] \in Imports
  BY DEF Imports
<1>3. SeenInv'
  BY DEF LoaderInv, SeenInv
<1> QED BY <1>1, <1>2, <1>3

\* A cached record that is not finished is being evaluated: the cycle is noted.
LEMMA CachedStep ==
  ASSUME LoaderInv, NEW n \in Keys, ImportCached(n)
  PROVE  LoaderInv'
<1> DEFINE w == recs[cache[n]].whole
           c == \E i \in DOMAIN stack : stack[i].rec = cache[n]
<1>1. /\ UNCHANGED <<cache, recs, stack>> /\ cache[n] # 0
      /\ seen' = seen \cup {[by |-> Top.rec, rec |-> cache[n], whole |-> w, cyclic |-> c]}
  BY DEF ImportCached, Take
<1>2. cache[n] \in DOMAIN recs /\ cache[n] \in 1..MaxRecords
  BY <1>1 DEF LoaderInv, TypeOK, CacheInv, LoaderAssumption
<1>3. recs \in Seq(Recs)
  BY DEF LoaderInv, TypeOK, Recs
<1>4. w \in BOOLEAN
  <2>1. recs[cache[n]] \in Recs
    BY <1>2, <1>3
  <2> QED BY <2>1 DEF Recs
<1>5. c \in BOOLEAN
  OBVIOUS
<1>6. Top.rec \in 0..MaxRecords
  BY StackShape DEF Frames
<1>7. w \/ c \/ recs'[cache[n]].key.file \in Broken
  BY <1>1 DEF LoaderInv, CacheInv, LoadedInv
<1> HIDE DEF w, c
<1>8. seen' \subseteq Imports /\ SeenInv'
  BY <1>1, <1>2, <1>4, <1>5, <1>6, <1>7, TakeStep
<1>9. TypeOK'
  BY <1>1, <1>8 DEF LoaderInv, TypeOK, Imports
<1>10. StackInv' /\ CacheInv' /\ LoadedInv'
  BY <1>1 DEF LoaderInv, StackInv, CacheInv, LoadedInv
<1> QED BY <1>8, <1>9, <1>10 DEF LoaderInv

\* A file's record is new and in the cache when its frame is put on the stack.
LEMMA FileStep ==
  ASSUME LoaderInv, NEW n \in Keys, ImportFile(n)
  PROVE  LoaderInv'
<1> DEFINE k == Len(recs) + 1
<1>1. /\ Room /\ cache[n] = 0 /\ UNCHANGED seen
      /\ recs' = Append(recs, Record(n, "loading"))
      /\ cache' = [cache EXCEPT ![n] = Len(recs')]
      /\ stack' = Append(stack, [rec |-> Len(recs'), at |-> "running"])
  BY DEF ImportFile, Frame
<1>2. /\ recs' \in Seq(Recs) /\ Len(recs') = k /\ k \in 1..MaxRecords
      /\ DOMAIN recs' = DOMAIN recs \cup {k} /\ k \notin DOMAIN recs
      /\ DOMAIN recs \subseteq 1..MaxRecords
      /\ recs'[k] = [key |-> n, state |-> "loading", whole |-> FALSE]
      /\ \A r \in DOMAIN recs : recs'[r] = recs[r] /\ recs[r] \in Recs
  BY <1>1, NewRecord
<1>3. cache \in [Keys -> 0..MaxRecords]
  BY DEF LoaderInv, TypeOK
<1>4. /\ cache' \in [Keys -> 0..MaxRecords] /\ cache'[n] = k
      /\ \A m \in Keys : m # n => cache'[m] = cache[m]
  BY <1>1, <1>2, <1>3
<1>5. /\ stack \in Seq(Frames) /\ Len(stack) \in Nat /\ Len(stack) >= 1
      /\ DOMAIN stack = 1..Len(stack)
  BY StackShape
<1> DEFINE d == Len(stack) + 1
<1>6. /\ stack' \in Seq(Frames) /\ DOMAIN stack' = DOMAIN stack \cup {d}
      /\ d \notin DOMAIN stack /\ 1 \in DOMAIN stack /\ stack'[d].rec = k
      /\ \A i \in DOMAIN stack : stack'[i] = stack[i]
      /\ stack' # <<>>
  <2>1. [rec |-> k, at |-> "running"] \in Frames
    BY <1>2 DEF Frames
  <2> QED BY <1>1, <1>2, <1>5, <2>1
<1> HIDE DEF k, d
<1>7. TypeOK'
  BY <1>1, <1>2, <1>4, <1>6 DEF LoaderInv, TypeOK, Recs, Frames
<1>8. \A r \in DOMAIN recs : recs[r].key \in Keys
  BY <1>2 DEF Recs
<1>9. \A i \in DOMAIN stack : stack[i].rec # k
  BY <1>2, <1>6 DEF LoaderInv, StackInv, LoaderAssumption
<1>10. StackInv'
  <2>1. stack'[1].rec = 0
    BY <1>6 DEF LoaderInv, StackInv
  <2>2. ASSUME NEW i \in DOMAIN stack', i # 1
        PROVE  /\ stack'[i].rec \in DOMAIN recs'
               /\ recs'[stack'[i].rec].state = "loading"
               /\ cache'[recs'[stack'[i].rec].key] = stack'[i].rec
               /\ \A j \in DOMAIN stack' : stack'[j].rec = stack'[i].rec => j = i
    <3>1. CASE i = d
      BY <3>1, <1>2, <1>4, <1>6, <1>9
    <3>2. CASE i \in DOMAIN stack
      <4>1. /\ stack[i].rec \in DOMAIN recs /\ recs[stack[i].rec].state = "loading"
            /\ cache[recs[stack[i].rec].key] = stack[i].rec
            /\ \A j \in DOMAIN stack : stack[j].rec = stack[i].rec => j = i
        BY <2>2, <3>2 DEF LoaderInv, StackInv
      <4>2. stack[i].rec # 0 /\ recs[stack[i].rec].key # n
        BY <4>1, <1>1, <1>2
      <4>3. cache'[recs[stack[i].rec].key] = stack[i].rec
        BY <4>1, <4>2, <1>4, <1>8
      <4> QED BY <3>2, <4>1, <4>3, <1>2, <1>6, <1>9
    <3> QED BY <2>2, <3>1, <3>2, <1>6
  <2> QED BY <2>1, <2>2 DEF StackInv
<1>11. CacheInv'
  <2>1. ASSUME NEW m \in Keys, cache'[m] # 0
        PROVE  /\ cache'[m] \in DOMAIN recs' /\ recs'[cache'[m]].key = m
               /\ \/ recs'[cache'[m]].state = "loaded"
                  \/ \E i \in DOMAIN stack' : stack'[i].rec = cache'[m]
                  \/ m.file \in Broken
    <3>1. CASE m = n
      BY <3>1, <1>2, <1>4, <1>6
    <3>2. CASE m # n
      <4>1. /\ cache[m] \in DOMAIN recs /\ recs[cache[m]].key = m
            /\ \/ recs[cache[m]].state = "loaded"
               \/ \E i \in DOMAIN stack : stack[i].rec = cache[m]
               \/ m.file \in Broken
        BY <2>1, <3>2, <1>4 DEF LoaderInv, CacheInv
      <4> QED BY <4>1, <3>2, <1>2, <1>4, <1>6
    <3> QED BY <3>1, <3>2
  <2> QED BY <2>1 DEF CacheInv
<1>12. LoadedInv'
  <2>1. ASSUME NEW r \in DOMAIN recs', recs'[r].state = "loaded"
        PROVE  recs'[r].whole /\ cache'[recs'[r].key] = r
    <3>1. r \in DOMAIN recs
      BY <2>1, <1>2
    <3>2. recs'[r] = recs[r] /\ recs[r].whole /\ cache[recs[r].key] = r
      BY <2>1, <3>1, <1>2 DEF LoaderInv, LoadedInv
    <3>3. recs[r].key # n
      BY <3>1, <3>2, <1>1, <1>2
    <3> QED BY <3>1, <3>2, <3>3, <1>4, <1>8
  <2> QED BY <2>1 DEF LoadedInv
<1>13. SeenInv'
  BY <1>1, <1>2, SeenStays
<1> QED BY <1>7, <1>10, <1>11, <1>12, <1>13 DEF LoaderInv

\* The record of a file that does not parse stays in the cache, and no frame has
\* it; the exception is the importer's.
LEMMA UnparsableStep ==
  ASSUME LoaderInv, NEW n \in Keys, ImportUnparsable(n)
  PROVE  LoaderInv'
<1> DEFINE k == Len(recs) + 1
<1>1. /\ n.file \in Broken /\ Room /\ cache[n] = 0 /\ UNCHANGED seen
      /\ recs' = Append(recs, Record(n, "loading"))
      /\ cache' = [cache EXCEPT ![n] = Len(recs')]
      /\ stack' = [stack EXCEPT ![Len(stack)].at = "raising"]
  BY DEF ImportUnparsable, Raised
<1>2. /\ recs' \in Seq(Recs) /\ Len(recs') = k /\ k \in 1..MaxRecords
      /\ DOMAIN recs' = DOMAIN recs \cup {k} /\ k \notin DOMAIN recs
      /\ DOMAIN recs \subseteq 1..MaxRecords
      /\ recs'[k] = [key |-> n, state |-> "loading", whole |-> FALSE]
      /\ \A r \in DOMAIN recs : recs'[r] = recs[r] /\ recs[r] \in Recs
  BY <1>1, NewRecord
<1>3. cache \in [Keys -> 0..MaxRecords]
  BY DEF LoaderInv, TypeOK
<1>4. /\ cache' \in [Keys -> 0..MaxRecords] /\ cache'[n] = k
      /\ \A m \in Keys : m # n => cache'[m] = cache[m]
  BY <1>1, <1>2, <1>3
<1>5. stack \in Seq(Frames) /\ stack # <<>> /\ 1 \in DOMAIN stack
  <2>1. stack \in Seq(Frames) /\ Len(stack) \in Nat /\ Len(stack) >= 1
        /\ DOMAIN stack = 1..Len(stack)
    BY StackShape
  <2> QED BY <2>1
<1>6. /\ stack' \in Seq(Frames) /\ DOMAIN stack' = DOMAIN stack /\ stack' # <<>>
      /\ \A i \in DOMAIN stack : stack'[i].rec = stack[i].rec
  <2>1. PICK a \in {"running", "raising"} : stack' = [stack EXCEPT ![Len(stack)].at = a]
    BY <1>1
  <2>2. /\ stack' \in Seq(Frames) /\ DOMAIN stack' = DOMAIN stack
        /\ \A i \in DOMAIN stack : stack'[i].rec = stack[i].rec
    BY <2>1, <1>5, TopChanged
  <2> QED BY <2>2, <1>5
<1> HIDE DEF k
<1>7. TypeOK'
  BY <1>1, <1>2, <1>4, <1>6 DEF LoaderInv, TypeOK, Recs, Frames
<1>8. \A r \in DOMAIN recs : recs[r].key \in Keys
  BY <1>2 DEF Recs
<1>10. StackInv'
  <2>1. stack'[1].rec = 0
    BY <1>5, <1>6 DEF LoaderInv, StackInv
  <2>2. ASSUME NEW i \in DOMAIN stack', i # 1
        PROVE  /\ stack'[i].rec \in DOMAIN recs'
               /\ recs'[stack'[i].rec].state = "loading"
               /\ cache'[recs'[stack'[i].rec].key] = stack'[i].rec
               /\ \A j \in DOMAIN stack' : stack'[j].rec = stack'[i].rec => j = i
    <3>1. /\ stack[i].rec \in DOMAIN recs /\ recs[stack[i].rec].state = "loading"
          /\ cache[recs[stack[i].rec].key] = stack[i].rec
          /\ \A j \in DOMAIN stack : stack[j].rec = stack[i].rec => j = i
      BY <2>2, <1>6 DEF LoaderInv, StackInv
    <3>2. stack[i].rec # 0 /\ recs[stack[i].rec].key # n
      BY <3>1, <1>1, <1>2
    <3>3. cache'[recs[stack[i].rec].key] = stack[i].rec
      BY <3>1, <3>2, <1>4, <1>8
    <3> QED BY <2>2, <3>1, <3>3, <1>2, <1>6
  <2> QED BY <2>1, <2>2 DEF StackInv
<1>11. CacheInv'
  <2>1. ASSUME NEW m \in Keys, cache'[m] # 0
        PROVE  /\ cache'[m] \in DOMAIN recs' /\ recs'[cache'[m]].key = m
               /\ \/ recs'[cache'[m]].state = "loaded"
                  \/ \E i \in DOMAIN stack' : stack'[i].rec = cache'[m]
                  \/ m.file \in Broken
    <3>1. CASE m = n
      BY <3>1, <1>1, <1>2, <1>4
    <3>2. CASE m # n
      <4>1. /\ cache[m] \in DOMAIN recs /\ recs[cache[m]].key = m
            /\ \/ recs[cache[m]].state = "loaded"
               \/ \E i \in DOMAIN stack : stack[i].rec = cache[m]
               \/ m.file \in Broken
        BY <2>1, <3>2, <1>4 DEF LoaderInv, CacheInv
      <4> QED BY <4>1, <3>2, <1>2, <1>4, <1>6
    <3> QED BY <3>1, <3>2
  <2> QED BY <2>1 DEF CacheInv
<1>12. LoadedInv'
  <2>1. ASSUME NEW r \in DOMAIN recs', recs'[r].state = "loaded"
        PROVE  recs'[r].whole /\ cache'[recs'[r].key] = r
    <3>1. r \in DOMAIN recs
      BY <2>1, <1>2
    <3>2. recs'[r] = recs[r] /\ recs[r].whole /\ cache[recs[r].key] = r
      BY <2>1, <3>1, <1>2 DEF LoaderInv, LoadedInv
    <3>3. recs[r].key # n
      BY <3>1, <3>2, <1>1, <1>2
    <3> QED BY <3>1, <3>2, <3>3, <1>4, <1>8
  <2> QED BY <2>1 DEF LoadedInv
<1>13. SeenInv'
  BY <1>1, <1>2, SeenStays
<1> QED BY <1>7, <1>10, <1>11, <1>12, <1>13 DEF LoaderInv

\* A native module's record is new, and finished at once.
LEMMA NativeStep ==
  ASSUME LoaderInv, NEW n \in Keys, ImportNative(n)
  PROVE  LoaderInv'
<1> DEFINE k == Len(recs) + 1
           c == \E i \in DOMAIN stack : stack[i].rec = k
<1>1. /\ Room /\ cache[n] = 0 /\ UNCHANGED stack
      /\ recs' = Append(recs, Record(n, "loaded"))
      /\ cache' = [cache EXCEPT ![n] = Len(recs')]
  BY DEF ImportNative
<1>2. /\ recs' \in Seq(Recs) /\ Len(recs') = k /\ k \in 1..MaxRecords
      /\ DOMAIN recs' = DOMAIN recs \cup {k} /\ k \notin DOMAIN recs
      /\ DOMAIN recs \subseteq 1..MaxRecords
      /\ recs'[k] = [key |-> n, state |-> "loaded", whole |-> TRUE]
      /\ \A r \in DOMAIN recs : recs'[r] = recs[r] /\ recs[r] \in Recs
  BY <1>1, NewRecord
<1>3. seen' = seen \cup {[by |-> Top.rec, rec |-> k, whole |-> TRUE, cyclic |-> c]}
  <2>1. seen' = seen \cup
          {[by |-> Top.rec, rec |-> Len(recs'), whole |-> recs'[Len(recs')].whole,
            cyclic |-> \E i \in DOMAIN stack : stack[i].rec = Len(recs')]}
    BY DEF ImportNative, Take
  <2>2. recs'[k].whole = TRUE /\ Len(recs') = k
    BY <1>2
  <2> QED BY <2>1, <2>2
<1>4. cache \in [Keys -> 0..MaxRecords]
  BY DEF LoaderInv, TypeOK
<1>5. /\ cache' \in [Keys -> 0..MaxRecords] /\ cache'[n] = k
      /\ \A m \in Keys : m # n => cache'[m] = cache[m]
  BY <1>1, <1>2, <1>4
<1>6. Top.rec \in 0..MaxRecords /\ c \in BOOLEAN
  BY StackShape DEF Frames
<1> HIDE DEF k, c
<1>7. seen' \subseteq Imports /\ SeenInv'
  BY <1>2, <1>3, <1>6, TakeStep
<1>8. TypeOK'
  BY <1>1, <1>2, <1>5, <1>7 DEF LoaderInv, TypeOK, Recs, Imports
<1>9. \A r \in DOMAIN recs : recs[r].key \in Keys
  BY <1>2 DEF Recs
<1>10. StackInv'
  <2>1. ASSUME NEW i \in DOMAIN stack, i # 1
        PROVE  /\ stack[i].rec \in DOMAIN recs'
               /\ recs'[stack[i].rec].state = "loading"
               /\ cache'[recs'[stack[i].rec].key] = stack[i].rec
               /\ \A j \in DOMAIN stack : stack[j].rec = stack[i].rec => j = i
    <3>1. /\ stack[i].rec \in DOMAIN recs /\ recs[stack[i].rec].state = "loading"
          /\ cache[recs[stack[i].rec].key] = stack[i].rec
          /\ \A j \in DOMAIN stack : stack[j].rec = stack[i].rec => j = i
      BY <2>1 DEF LoaderInv, StackInv
    <3>2. stack[i].rec # 0 /\ recs[stack[i].rec].key # n
      BY <3>1, <1>1, <1>2
    <3> QED BY <3>1, <3>2, <1>2, <1>5, <1>9
  <2> QED BY <2>1, <1>1 DEF LoaderInv, StackInv
<1>11. CacheInv'
  <2>1. ASSUME NEW m \in Keys, cache'[m] # 0
        PROVE  /\ cache'[m] \in DOMAIN recs' /\ recs'[cache'[m]].key = m
               /\ \/ recs'[cache'[m]].state = "loaded"
                  \/ \E i \in DOMAIN stack : stack[i].rec = cache'[m]
                  \/ m.file \in Broken
    <3>1. CASE m = n
      BY <3>1, <1>2, <1>5
    <3>2. CASE m # n
      <4>1. /\ cache[m] \in DOMAIN recs /\ recs[cache[m]].key = m
            /\ \/ recs[cache[m]].state = "loaded"
               \/ \E i \in DOMAIN stack : stack[i].rec = cache[m]
               \/ m.file \in Broken
        BY <2>1, <3>2, <1>5 DEF LoaderInv, CacheInv
      <4> QED BY <4>1, <3>2, <1>2, <1>5
    <3> QED BY <3>1, <3>2
  <2> QED BY <2>1, <1>1 DEF CacheInv
<1>12. LoadedInv'
  <2>1. ASSUME NEW r \in DOMAIN recs', recs'[r].state = "loaded"
        PROVE  recs'[r].whole /\ cache'[recs'[r].key] = r
    <3>1. CASE r = k
      BY <3>1, <1>2, <1>5
    <3>2. CASE r \in DOMAIN recs
      <4>1. recs'[r] = recs[r] /\ recs[r].whole /\ cache[recs[r].key] = r
        BY <2>1, <3>2, <1>2 DEF LoaderInv, LoadedInv
      <4>2. recs[r].key # n
        BY <3>2, <4>1, <1>1, <1>2
      <4> QED BY <3>2, <4>1, <4>2, <1>5, <1>9
    <3> QED BY <2>1, <3>1, <3>2, <1>2
  <2> QED BY <2>1 DEF LoadedInv
<1> QED BY <1>7, <1>8, <1>10, <1>11, <1>12 DEF LoaderInv

\* The module on top is finished: its record is whole and no frame has it.
LEMMA FinishStep ==
  ASSUME LoaderInv, Finish
  PROVE  LoaderInv'
<1> DEFINE d == Len(stack)
           k == stack[d].rec
           c == \E i \in DOMAIN Beneath : Beneath[i].rec = k
<1>1. /\ k # 0 /\ UNCHANGED cache /\ stack' = Beneath
      /\ recs' = [recs EXCEPT ![k] = Record(recs[k].key, "loaded")]
      /\ seen' = seen \cup {[by |-> Beneath[Len(Beneath)].rec, rec |-> k,
                             whole |-> recs'[k].whole, cyclic |-> c]}
  BY DEF Finish, Top, Take
<1>2. /\ d \in Nat /\ d > 1 /\ DOMAIN stack = 1..d /\ stack \in Seq(Frames)
      /\ Beneath \in Seq(Frames) /\ Len(Beneath) = d - 1 /\ Beneath # <<>>
      /\ DOMAIN Beneath = 1..(d - 1)
      /\ \A i \in DOMAIN Beneath : Beneath[i] = stack[i]
  BY <1>1, StackShape DEF Top
<1>3. /\ k \in DOMAIN recs /\ recs[k].state = "loading" /\ cache[recs[k].key] = k
      /\ \A j \in DOMAIN stack : stack[j].rec = k => j = d
  BY <1>2 DEF LoaderInv, StackInv
<1>4. recs \in Seq(Recs) /\ Len(recs) <= MaxRecords /\ DOMAIN recs \subseteq 1..MaxRecords
  BY DEF LoaderInv, TypeOK, Recs, LoaderAssumption
<1>5. recs[k] \in Recs
  BY <1>3, <1>4
<1>6. /\ recs' \in Seq(Recs) /\ Len(recs') = Len(recs) /\ DOMAIN recs' = DOMAIN recs
      /\ recs'[k] = [key |-> recs[k].key, state |-> "loaded", whole |-> TRUE]
      /\ \A r \in DOMAIN recs : r # k => recs'[r] = recs[r]
  <2>1. [key |-> recs[k].key, state |-> "loaded", whole |-> TRUE] \in Recs
    BY <1>5 DEF Recs
  <2>2. recs' = [recs EXCEPT ![k] = [key |-> recs[k].key, state |-> "loaded", whole |-> TRUE]]
    BY <1>1, <1>3, <1>4 DEF Record
  <2> QED BY <2>1, <2>2, <1>3, <1>4
<1>7. \A r \in DOMAIN recs : recs'[r].key = recs[r].key
  BY <1>6
<1>8. Beneath[Len(Beneath)].rec \in 0..MaxRecords
  <2>1. Beneath[Len(Beneath)] \in Frames
    BY <1>2
  <2> QED BY <2>1 DEF Frames
<1>9. c \in BOOLEAN /\ recs'[k].whole = TRUE /\ k \in 1..MaxRecords
  BY <1>3, <1>4, <1>6
<1> HIDE DEF d, k, c
<1>10. seen' \subseteq Imports /\ SeenInv'
  <2>1. k \in DOMAIN recs' /\ DOMAIN recs \subseteq DOMAIN recs'
    BY <1>3, <1>6
  <2>2. recs'[k].whole \/ c
    BY <1>9
  <2>3. seen' = seen \cup {[by |-> Beneath[Len(Beneath)].rec, rec |-> k, whole |-> TRUE,
                            cyclic |-> c]}
    BY <1>1, <1>9
  <2> QED BY <2>1, <2>2, <2>3, <1>7, <1>8, <1>9, TakeStep
<1>11. TypeOK'
  BY <1>1, <1>2, <1>4, <1>6, <1>10 DEF LoaderInv, TypeOK, Recs, Frames, Imports
<1>12. /\ \A i \in DOMAIN stack' : i \in DOMAIN stack /\ stack'[i] = stack[i] /\ i # d
       /\ \A i \in DOMAIN stack : i # d => i \in DOMAIN stack'
       /\ 1 \in DOMAIN stack'
  BY <1>1, <1>2
<1>13. StackInv'
  <2>1. stack'[1].rec = 0
    BY <1>12 DEF LoaderInv, StackInv
  <2>2. ASSUME NEW i \in DOMAIN stack', i # 1
        PROVE  /\ stack'[i].rec \in DOMAIN recs'
               /\ recs'[stack'[i].rec].state = "loading"
               /\ cache'[recs'[stack'[i].rec].key] = stack'[i].rec
               /\ \A j \in DOMAIN stack' : stack'[j].rec = stack'[i].rec => j = i
    <3>1. i \in DOMAIN stack /\ stack'[i] = stack[i] /\ i # d
      BY <1>12
    <3>2. /\ stack[i].rec \in DOMAIN recs /\ recs[stack[i].rec].state = "loading"
          /\ cache[recs[stack[i].rec].key] = stack[i].rec
          /\ \A j \in DOMAIN stack : stack[j].rec = stack[i].rec => j = i
      BY <2>2, <3>1 DEF LoaderInv, StackInv
    <3>3. stack[i].rec # k
      BY <3>1, <1>3
    <3>4. \A j \in DOMAIN stack' : stack'[j].rec = stack'[i].rec => j = i
      BY <3>1, <3>2, <1>12
    <3> QED BY <3>1, <3>2, <3>3, <3>4, <1>1, <1>6
  <2> QED BY <2>1, <2>2 DEF StackInv
<1>14. CacheInv'
  <2>1. ASSUME NEW m \in Keys, cache[m] # 0
        PROVE  /\ cache[m] \in DOMAIN recs' /\ recs'[cache[m]].key = m
               /\ \/ recs'[cache[m]].state = "loaded"
                  \/ \E i \in DOMAIN stack' : stack'[i].rec = cache[m]
                  \/ m.file \in Broken
    <3>1. /\ cache[m] \in DOMAIN recs /\ recs[cache[m]].key = m
          /\ \/ recs[cache[m]].state = "loaded"
             \/ \E i \in DOMAIN stack : stack[i].rec = cache[m]
             \/ m.file \in Broken
      BY <2>1 DEF LoaderInv, CacheInv
    <3>2. CASE cache[m] = k
      BY <3>1, <3>2, <1>6
    <3>3. CASE cache[m] # k
      <4>1. ASSUME NEW i \in DOMAIN stack, stack[i].rec = cache[m]
            PROVE  \E j \in DOMAIN stack' : stack'[j].rec = cache[m]
        <5>1. stack[d].rec = k
          BY DEF d, k
        <5>2. i # d
          BY <3>3, <4>1, <5>1
        <5> QED BY <4>1, <5>2, <1>12
      <4> QED BY <3>1, <3>3, <4>1, <1>6
    <3> QED BY <3>2, <3>3
  <2> QED BY <2>1, <1>1 DEF CacheInv
<1>15. LoadedInv'
  <2>1. ASSUME NEW r \in DOMAIN recs', recs'[r].state = "loaded"
        PROVE  recs'[r].whole /\ cache[recs'[r].key] = r
    <3>1. CASE r = k
      BY <3>1, <1>3, <1>6
    <3>2. CASE r # k
      BY <2>1, <3>2, <1>6 DEF LoaderInv, LoadedInv
    <3> QED BY <3>1, <3>2
  <2> QED BY <2>1, <1>1 DEF LoadedInv
<1> QED BY <1>10, <1>11, <1>13, <1>14, <1>15 DEF LoaderInv

\* The module on top is left by an exception: its name has no record any more.
LEMMA UnwindStep ==
  ASSUME LoaderInv, Unwind
  PROVE  LoaderInv'
<1> DEFINE d == Len(stack)
           k == stack[d].rec
           n == recs[k].key
<1>1. /\ k # 0 /\ UNCHANGED <<recs, seen>> /\ stack' = Raised(Beneath)
      /\ cache' = [cache EXCEPT ![n] = 0]
  BY DEF Unwind, Top
<1>2. /\ d \in Nat /\ d > 1 /\ DOMAIN stack = 1..d
      /\ Beneath \in Seq(Frames) /\ Len(Beneath) = d - 1 /\ Beneath # <<>>
      /\ DOMAIN Beneath = 1..(d - 1)
      /\ \A i \in DOMAIN Beneath : Beneath[i] = stack[i]
  BY <1>1, StackShape DEF Top
<1>3. /\ k \in DOMAIN recs /\ recs[k].state = "loading" /\ cache[n] = k
      /\ \A j \in DOMAIN stack : stack[j].rec = k => j = d
  BY <1>2 DEF LoaderInv, StackInv
<1>4. recs \in Seq(Recs) /\ cache \in [Keys -> 0..MaxRecords]
  BY DEF LoaderInv, TypeOK, Recs
<1>5. \A r \in DOMAIN recs : recs[r].key \in Keys
  <2>1. \A r \in DOMAIN recs : recs[r] \in Recs
    BY <1>4
  <2> QED BY <2>1 DEF Recs
<1>6. /\ cache' \in [Keys -> 0..MaxRecords] /\ cache'[n] = 0
      /\ \A m \in Keys : m # n => cache'[m] = cache[m]
  BY <1>1, <1>3, <1>4, <1>5, LoaderAssumption
<1>7. /\ stack' \in Seq(Frames) /\ Len(stack') = d - 1 /\ DOMAIN stack' = DOMAIN Beneath
      /\ \A i \in DOMAIN Beneath : stack'[i].rec = Beneath[i].rec
  <2>1. stack' = [Beneath EXCEPT ![Len(Beneath)].at = "raising"]
    BY <1>1 DEF Raised
  <2>2. Beneath \in Seq(Frames) /\ Beneath # <<>>
    BY <1>2
  <2>3. /\ stack' \in Seq(Frames) /\ Len(stack') = Len(Beneath)
        /\ DOMAIN stack' = DOMAIN Beneath
        /\ \A i \in DOMAIN Beneath : stack'[i].rec = Beneath[i].rec
    BY <2>1, <2>2, TopChanged
  <2> QED BY <2>3, <1>2
<1>8. \A i \in DOMAIN stack : stack[i].rec = k => i = d
  BY <1>3
<1>9. stack[d].rec = k
  OBVIOUS
<1> HIDE DEF d, k, n
<1>10. /\ \A i \in DOMAIN stack' : i \in DOMAIN stack /\ stack'[i].rec = stack[i].rec /\ i # d
       /\ \A i \in DOMAIN stack : i # d => i \in DOMAIN stack'
       /\ 1 \in DOMAIN stack' /\ stack' # <<>>
  BY <1>2, <1>7
<1>11. TypeOK'
  BY <1>1, <1>6, <1>7, <1>10 DEF LoaderInv, TypeOK, Frames
<1>12. StackInv'
  <2>1. stack'[1].rec = 0
    BY <1>10 DEF LoaderInv, StackInv
  <2>2. ASSUME NEW i \in DOMAIN stack', i # 1
        PROVE  /\ stack'[i].rec \in DOMAIN recs
               /\ recs[stack'[i].rec].state = "loading"
               /\ cache'[recs[stack'[i].rec].key] = stack'[i].rec
               /\ \A j \in DOMAIN stack' : stack'[j].rec = stack'[i].rec => j = i
    <3>1. i \in DOMAIN stack /\ stack'[i].rec = stack[i].rec /\ i # d
      BY <1>10
    <3>2. /\ stack[i].rec \in DOMAIN recs /\ recs[stack[i].rec].state = "loading"
          /\ cache[recs[stack[i].rec].key] = stack[i].rec
          /\ \A j \in DOMAIN stack : stack[j].rec = stack[i].rec => j = i
      BY <2>2, <3>1 DEF LoaderInv, StackInv
    <3>3. recs[stack[i].rec].key # n
      BY <3>1, <3>2, <1>3, <1>8
    <3>4. \A j \in DOMAIN stack' : stack'[j].rec = stack'[i].rec => j = i
      BY <3>1, <3>2, <1>10
    <3> QED BY <3>1, <3>2, <3>3, <3>4, <1>5, <1>6
  <2> QED BY <2>1, <2>2, <1>1 DEF StackInv
<1>13. CacheInv'
  <2>1. ASSUME NEW m \in Keys, cache'[m] # 0
        PROVE  /\ cache'[m] \in DOMAIN recs /\ recs[cache'[m]].key = m
               /\ \/ recs[cache'[m]].state = "loaded"
                  \/ \E i \in DOMAIN stack' : stack'[i].rec = cache'[m]
                  \/ m.file \in Broken
    <3>1. m # n /\ cache'[m] = cache[m]
      BY <2>1, <1>6
    <3>2. /\ cache[m] \in DOMAIN recs /\ recs[cache[m]].key = m
          /\ \/ recs[cache[m]].state = "loaded"
             \/ \E i \in DOMAIN stack : stack[i].rec = cache[m]
             \/ m.file \in Broken
      BY <2>1, <3>1 DEF LoaderInv, CacheInv
    <3>3. ASSUME NEW i \in DOMAIN stack, stack[i].rec = cache[m]
          PROVE  \E j \in DOMAIN stack' : stack'[j].rec = cache[m]
      <4>1. recs[k].key = n
        BY DEF n
      <4>2. i # d
        BY <3>1, <3>2, <3>3, <4>1, <1>9
      <4> QED BY <3>3, <4>2, <1>10
    <3> QED BY <3>1, <3>2, <3>3
  <2> QED BY <2>1, <1>1 DEF CacheInv
<1>14. LoadedInv'
  <2>1. ASSUME NEW r \in DOMAIN recs, recs[r].state = "loaded"
        PROVE  recs[r].whole /\ cache'[recs[r].key] = r
    <3>1. recs[r].whole /\ cache[recs[r].key] = r
      BY <2>1 DEF LoaderInv, LoadedInv
    <3>2. recs[r].key # n
      BY <2>1, <3>1, <1>3
    <3> QED BY <2>1, <3>1, <3>2, <1>5, <1>6
  <2> QED BY <2>1, <1>1 DEF LoadedInv
<1>15. SeenInv'
  BY <1>1, SeenStays
<1> QED BY <1>11, <1>12, <1>13, <1>14, <1>15 DEF LoaderInv

\* Nothing is cached and only the script is evaluated.
LEMMA LoaderBegins == Init => LoaderInv
<1> SUFFICES ASSUME Init PROVE LoaderInv
  OBVIOUS
<1>1. stack = <<[rec |-> 0, at |-> "running"]>> /\ recs = <<>> /\ seen = {}
      /\ cache = [n \in Keys |-> 0]
  BY DEF Init, Frame
<1>2. DOMAIN stack = {1} /\ stack[1].rec = 0 /\ DOMAIN recs = {}
  BY <1>1
<1>3. TypeOK
  BY <1>1, LoaderAssumption DEF TypeOK
<1>4. StackInv
  BY <1>2 DEF StackInv
<1>5. CacheInv /\ LoadedInv /\ SeenInv
  BY <1>1, <1>2 DEF CacheInv, LoadedInv, SeenInv
<1> QED BY <1>3, <1>4, <1>5 DEF LoaderInv

\* Every step keeps the invariant.
LEMMA LoaderSteps ==
  ASSUME LoaderInv, [Next]_vars
  PROVE  LoaderInv'
<1>1. CASE UNCHANGED vars
  <2>1. UNCHANGED <<cache, recs, stack, seen>>
    BY <1>1 DEF vars
  <2> QED BY <2>1 DEF LoaderInv, TypeOK, StackInv, CacheInv, LoadedInv, SeenInv
<1>2. ASSUME NEW n \in Keys, ImportCached(n) \/ ImportFile(n) \/ ImportNative(n)
      PROVE  LoaderInv'
  BY <1>2, CachedStep, FileStep, NativeStep
<1>3. ASSUME NEW n \in Keys, ImportUnreadable(n) \/ AddonFails(n)
      PROVE  LoaderInv'
  BY <1>3, RaiseStep
<1>4. ASSUME NEW n \in Keys, ImportUnparsable(n)
      PROVE  LoaderInv'
  BY <1>4, UnparsableStep
<1>5. CASE Finish
  BY <1>5, FinishStep
<1>6. CASE Throw \/ Caught
  BY <1>6, RaiseStep
<1>7. CASE Unwind
  BY <1>7, UnwindStep
<1> QED BY <1>1, <1>2, <1>3, <1>4, <1>5, <1>6, <1>7 DEF Next

\* The keys of one module are the same key.
LEMMA OneKey ==
  ASSUME NEW k \in Keys, NEW l \in Keys, OneModule(k, l)
  PROVE  k = l
<1>1. k.file = l.file /\ (k.file \in Packages => k.way = l.way)
  BY DEF OneModule
<1>2. ASSUME NEW m \in Keys
      PROVE  /\ m = [way |-> m.way, file |-> m.file]
             /\ \/ m.way = "path" /\ m.file \in Files
                \/ m.way = "package" /\ m.file \in Packages
                \/ m.way = "native" /\ m.file \in Natives
  BY DEF Keys
<1>3. k.way = l.way
  BY <1>1, <1>2, LoaderAssumption
<1> QED BY <1>1, <1>2, <1>3

\* What the invariant means for the importers of modules.
LEMMA LoaderIsWhole == LoaderInv => ModulesAreWhole
<1> SUFFICES ASSUME LoaderInv PROVE ModulesAreWhole
  OBVIOUS
<1>0. \A r \in DOMAIN recs : recs[r].key \in Keys
  <2>1. recs \in Seq(Recs)
    BY DEF LoaderInv, TypeOK, Recs
  <2>2. \A r \in DOMAIN recs : recs[r] \in Recs
    BY <2>1
  <2> QED BY <2>2 DEF Recs
<1>1. NoReentry
  <2> SUFFICES ASSUME NEW i \in 2..Len(stack), NEW j \in 2..Len(stack),
                      OneModule(recs[stack[i].rec].key, recs[stack[j].rec].key)
               PROVE  i = j
    BY DEF NoReentry
  <2>1. DOMAIN stack = 1..Len(stack) /\ Len(stack) \in Nat
    BY StackShape
  <2>2. i \in DOMAIN stack /\ j \in DOMAIN stack /\ i # 1 /\ j # 1
    BY <2>1
  <2>3. stack[i].rec \in DOMAIN recs /\ stack[j].rec \in DOMAIN recs
    BY <2>2 DEF LoaderInv, StackInv
  <2>4. recs[stack[i].rec].key = recs[stack[j].rec].key
    BY <2>3, <1>0, OneKey
  <2> QED BY <2>2, <2>4 DEF LoaderInv, StackInv
<1>2. OneInstance
  <2> SUFFICES ASSUME NEW r \in DOMAIN recs, NEW q \in DOMAIN recs,
                      recs[r].state = "loaded", recs[q].state = "loaded",
                      OneModule(recs[r].key, recs[q].key)
               PROVE  r = q
    BY DEF OneInstance, Ids
  <2>1. recs[r].key = recs[q].key
    BY <1>0, OneKey
  <2> QED BY <2>1 DEF LoaderInv, LoadedInv
<1>3. CacheIsLive
  BY DEF LoaderInv, CacheInv, CacheIsLive
<1>4. ImportsAreWhole
  BY DEF LoaderInv, SeenInv, ImportsAreWhole
<1> QED BY <1>1, <1>2, <1>3, <1>4 DEF ModulesAreWhole

\* import_module, whatever the modules, however they import one another and
\* whichever of them fail, also by their syntax: a file is never evaluated inside
\* itself and its importers share one instance, but for the entry of a package,
\* which is one module by the name of the package and one by its path; the cache
\* holds nothing that failed, and outside of cycles an import gets all the
\* exports, but for the record that a file leaves whose text does not parse.
THEOREM ModulesStayWhole == Spec => []ModulesAreWhole
<1>1. LoaderInv /\ [Next]_vars => LoaderInv'
  BY LoaderSteps
<1> QED BY LoaderBegins, <1>1, LoaderIsWhole, PTL DEF Spec

-----------------------------------------------------------------------------
\* The emitter.

\* A is before B: emitted earlier, or of the same emission and registered earlier.
Sooner(m, r, n, s) == m < n \/ (m = n /\ r < s)

\* A number is given to one registration, which is on one list until its wrapper
\* has fired or it is removed.
ListInv ==
  /\ e.regs <= e.calls /\ e.emits <= e.calls /\ fired \subseteq 1..e.regs
  /\ \A v \in Events : IsFiniteSet(listeners[v])
  /\ \A v \in Events : \A l \in listeners[v] : l.reg <= e.regs /\ l.reg \notin fired
  /\ \A v, w \in Events : \A l \in listeners[v], m \in listeners[w] :
       l.reg = m.reg => l.once = m.once

\* What was emitted to a registration knows what it is.
OwedInv ==
  /\ \A o \in e.owed : o.reg <= e.regs /\ o.n <= e.emits
  /\ \A o, p \in e.owed : o.reg = p.reg => o.once = p.once
  /\ \A o \in e.owed : \A v \in Events : \A l \in listeners[v] :
       l.reg = o.reg => l.once = o.once

\* The callbacks of the list are queued in the order of the emissions and, in
\* each, of the list, behind what was heard; a call that a wrapper queued is of
\* a wrapper that has fired, and for its first emission.
QueueInv ==
  /\ \A i \in DOMAIN queue : Heard(queue[i].of, queue[i].n) \in e.owed
  /\ \A i \in DOMAIN queue : queue[i].call => queue[i].of.once /\ queue[i].of.reg \in fired
  /\ \A i, j \in DOMAIN queue : i < j /\ ~queue[i].call /\ ~queue[j].call =>
       Sooner(queue[i].n, queue[i].of.reg, queue[j].n, queue[j].of.reg)
  /\ \A i \in DOMAIN e.heard, j \in DOMAIN queue : ~e.heard[i].once /\ ~queue[j].call =>
       Sooner(e.heard[i].n, e.heard[i].reg, queue[j].n, queue[j].of.reg)
  /\ \A i \in DOMAIN queue : queue[i].call =>
       \A o \in e.owed : o.reg = queue[i].of.reg => queue[i].n <= o.n

\* What was heard was owed, and of once() it was the first.
HeardInv ==
  /\ \A i \in DOMAIN e.heard : e.heard[i] \in e.owed
  /\ \A i \in DOMAIN e.heard : e.heard[i].once => e.heard[i].reg \in fired
  /\ \A i \in DOMAIN e.heard : e.heard[i].once =>
       \A o \in e.owed : o.reg = e.heard[i].reg => e.heard[i].n <= o.n

\* A wrapper that has fired has had its function called or is about to, not both.
FiredInv ==
  \A r \in fired :
    /\ \A o \in e.owed : o.reg = r => o.once
    /\ \A i, j \in Calling(r) : i = j
    /\ \A i, j \in Callings(r) : i = j
    /\ Calling(r) = {} <=> Callings(r) # {}

EmitterInv ==
  /\ EmitterTypeOK /\ ListInv /\ OwedInv /\ QueueInv /\ HeardInv /\ FiredInv
  /\ HeardInTurn /\ DebtsArePaid

USE EmitterAssumption

-------------------------------------------------------------------------------
\* Sequences: what a join, an append and a tail hold.
LEMMA ListsJoined ==
  ASSUME NEW S, NEW p \in Seq(S), NEW q \in Seq(S)
  PROVE  /\ p \o q \in Seq(S)
         /\ \A i \in DOMAIN p : i \in Nat /\ i <= Len(p) /\ i \in DOMAIN (p \o q) /\ (p \o q)[i] = p[i]
         /\ \A i \in DOMAIN q : /\ i \in Nat \ {0} /\ Len(p) + i \in DOMAIN (p \o q)
                                /\ (p \o q)[Len(p) + i] = q[i]
         /\ \A k \in DOMAIN (p \o q) :
              \/ k \in DOMAIN p
              \/ k > Len(p) /\ k - Len(p) \in DOMAIN q /\ k = Len(p) + (k - Len(p))
         /\ Len(p) \in Nat
  OBVIOUS

\* A function on 1..n is a sequence.
LEMMA IsSeq ==
  ASSUME NEW S, NEW n \in Nat, NEW f \in [1..n -> S]
  PROVE  f \in Seq(S)
  OBVIOUS

\* What is left when the first is taken,
LEMMA JobTaken ==
  ASSUME NEW S, NEW q \in Seq(S), q # <<>>
  PROVE  /\ Head(q) = q[1] /\ 1 \in DOMAIN q /\ q[1] \in S /\ Tail(q) \in Seq(S)
         /\ \A i \in DOMAIN Tail(q) : i \in Nat \ {0} /\ i + 1 \in DOMAIN q /\ Tail(q)[i] = q[i + 1]
         /\ \A i \in DOMAIN q : i # 1 => i - 1 \in DOMAIN Tail(q) /\ Tail(q)[i - 1] = q[i]
  OBVIOUS

\* and what there is when one is added.
LEMMA JobQueued ==
  ASSUME NEW S, NEW q \in Seq(S), NEW x \in S
  PROVE  /\ Append(q, x) \in Seq(S)
         /\ \A i \in DOMAIN q : i \in Nat /\ i < Len(q) + 1 /\ i \in DOMAIN Append(q, x)
                                /\ Append(q, x)[i] = q[i]
         /\ Len(q) + 1 \in DOMAIN Append(q, x) /\ Append(q, x)[Len(q) + 1] = x
         /\ \A i \in DOMAIN Append(q, x) : i \in DOMAIN q \/ i = Len(q) + 1
         /\ Len(q) + 1 \in Nat
<1>1. Len(q) \in Nat /\ DOMAIN q = 1..Len(q)
  OBVIOUS
<1> QED BY <1>1

\* The list of a finite set of registrations has them all.
LEMMA ListHasAll ==
  ASSUME NEW ls \in SUBSET Listeners, IsFiniteSet(ls), NEW q \in Lists(ls)
  PROVE  q \in Seq(ls) /\ \A l \in ls : \E i \in DOMAIN q : q[i] = l
<1> DEFINE n == Cardinality(ls)
<1>1. n \in Nat
  BY FS_CardinalityType
<1>2. /\ q \in [1..n -> ls]
      /\ \A i, j \in 1..n : i < j => q[i].reg < q[j].reg
  BY DEF Lists
<1> HIDE DEF n
<1>3. \A i, j \in 1..n : q[i] = q[j] => i = j
  <2> SUFFICES ASSUME NEW i \in 1..n, NEW j \in 1..n, q[i] = q[j], i # j PROVE FALSE
    OBVIOUS
  <2>1. i < j \/ j < i
    BY <1>1
  <2>2. q[i].reg \in 1..Calls
    BY <1>2 DEF Listeners
  <2> QED BY <1>2, <2>1, <2>2
<1>4. q \in Injection(1..n, ls)
  BY <1>2, <1>3 DEF Injection, IsInjective
<1>5. IsFiniteSet(1..n) /\ Cardinality(1..n) = n
  BY <1>1, FS_Interval
<1>6. q \in Surjection(1..n, ls)
  BY <1>4, <1>5, FS_Injection DEF n
<1> QED BY <1>1, <1>2, <1>6 DEF Surjection

-------------------------------------------------------------------------------
Jobs == [of : Listeners, n : 1..Calls, call : BOOLEAN]

\* The types of what is queued and of what was heard.
LEMMA InQueue ==
  ASSUME EmitterTypeOK, NEW i \in DOMAIN queue
  PROVE  /\ i \in Nat /\ queue[i] \in Jobs /\ queue[i].of \in Listeners
         /\ queue[i].n \in 1..Calls /\ queue[i].call \in BOOLEAN
         /\ queue[i].of.reg \in 1..Calls /\ queue[i].of.once \in BOOLEAN
<1>1. i \in Nat /\ queue[i] \in Jobs
  <2>1. queue \in Seq(Jobs)
    BY DEF EmitterTypeOK, Jobs
  <2> QED BY <2>1
<1>2. queue[i].of \in Listeners
  BY <1>1 DEF Jobs
<1> QED BY <1>1, <1>2 DEF Jobs, Listeners

LEMMA InHeard ==
  ASSUME EmitterTypeOK, NEW i \in DOMAIN e.heard
  PROVE  i \in Nat /\ e.heard[i] \in Hearings
BY DEF EmitterTypeOK

\* What a job hands on.
LEMMA HeardTyped ==
  ASSUME NEW l \in Listeners, NEW n \in 1..Calls
  PROVE  /\ Heard(l, n) \in Hearings /\ Heard(l, n).reg = l.reg
         /\ Heard(l, n).once = l.once /\ Heard(l, n).n = n
BY DEF Heard, Listeners, Hearings

-------------------------------------------------------------------------------
\* The calls that only change the lists.
LEMMA RegisterTypes ==
  ASSUME EmitterTypeOK, ListInv, NEW v \in Events, NEW f \in Fns,
         NEW once \in BOOLEAN, Register(v, f, once)
  PROVE  EmitterTypeOK'
<1>1. e.regs + 1 \in 1..Calls /\ e.calls + 1 \in 0..Calls
  BY DEF Register, Call, EmitterTypeOK, ListInv
<1>2. Listener(f, once) \in Listeners
  BY <1>1 DEF Listener, Listeners
<1>3. listeners' \in [Events -> SUBSET Listeners]
  BY <1>2 DEF Register, EmitterTypeOK
<1>4. e' = [e EXCEPT !.calls = e.calls + 1, !.regs = e.regs + 1]
  BY DEF Register, Counted, EmitterTypeOK
<1>5. e' \in [regs : 0..Calls, emits : 0..Calls, calls : 0..Calls,
              owed : SUBSET Hearings, heard : Seq(Hearings)]
  <2>1. /\ e'.regs = e.regs + 1 /\ e'.calls = e.calls + 1 /\ e'.emits = e.emits
        /\ e'.owed = e.owed /\ e'.heard = e.heard
        /\ e' = [regs |-> e'.regs, emits |-> e'.emits, calls |-> e'.calls,
                owed |-> e'.owed, heard |-> e'.heard]
    BY <1>4 DEF EmitterTypeOK
  <2>2. e.emits \in 0..Calls /\ e.owed \in SUBSET Hearings /\ e.heard \in Seq(Hearings)
    BY DEF EmitterTypeOK
  <2> QED BY <1>1, <2>1, <2>2
<1> QED BY <1>3, <1>5 DEF Register, EmitterTypeOK

\* A registration keeps the invariant,
LEMMA RegisterStep ==
  ASSUME EmitterInv, NEW v \in Events, NEW f \in Fns,
         NEW once \in BOOLEAN, Register(v, f, once)
  PROVE  EmitterInv'
<1> DEFINE l == Listener(f, once)
<1>1. EmitterTypeOK'
  BY RegisterTypes DEF EmitterInv
<1>2. /\ e'.calls = e.calls + 1 /\ e'.regs = e.regs + 1 /\ e'.emits = e.emits
      /\ e'.owed = e.owed /\ e'.heard = e.heard /\ queue' = queue /\ fired' = fired
  BY DEF Register, Counted, EmitterInv, EmitterTypeOK
<1>3. \A w \in Events : \A m \in listeners'[w] : m \in listeners[w] \/ (w = v /\ m = l)
  BY DEF Register, EmitterInv, EmitterTypeOK
<1>4. l.reg = e.regs + 1 /\ e.regs \in Nat /\ e.emits \in Nat /\ e.calls \in Nat
  BY DEF Listener, EmitterInv, EmitterTypeOK
<1> HIDE DEF l
<1>5. ListInv'
  <2>1. \A w \in Events : IsFiniteSet(listeners'[w])
    <3> SUFFICES ASSUME NEW w \in Events PROVE IsFiniteSet(listeners'[w])
      OBVIOUS
    <3>1. listeners'[w] = listeners[w] \/ listeners'[w] = listeners[w] \cup {l}
      BY DEF Register, EmitterInv, EmitterTypeOK, l
    <3>2. IsFiniteSet(listeners[w])
      BY DEF EmitterInv, ListInv
    <3> QED BY <3>1, <3>2, FS_AddElement
  <2>2. \A w \in Events : \A m \in listeners[w] : m.reg <= e.regs /\ m.reg \in Nat
    BY DEF EmitterInv, ListInv, EmitterTypeOK, Listeners
  <2>3. fired \subseteq 1..e.regs
    BY DEF EmitterInv, ListInv
  <2>4. \A w \in Events : \A m \in listeners'[w] : m.reg <= e'.regs /\ m.reg \notin fired
    BY <1>2, <1>3, <1>4, <2>2, <2>3 DEF EmitterInv, ListInv
  <2>5. \A w, x \in Events : \A m \in listeners'[w], k \in listeners'[x] :
          m.reg = k.reg => m.once = k.once
    BY <1>3, <1>4, <2>2 DEF EmitterInv, ListInv
  <2>6. fired' \subseteq 1..e'.regs /\ e'.regs <= e'.calls /\ e'.emits <= e'.calls
    BY <1>2, <1>4, <2>3 DEF EmitterInv, ListInv
  <2> QED BY <1>2, <2>1, <2>4, <2>5, <2>6 DEF ListInv
<1>6. OwedInv'
  <2>1. \A o \in e.owed : o.reg <= e.regs /\ o.n <= e.emits /\ o.reg \in Nat
    BY DEF EmitterInv, OwedInv, EmitterTypeOK, Hearings
  <2> QED BY <1>2, <1>3, <1>4, <2>1 DEF EmitterInv, OwedInv
<1>7. QueueInv' /\ HeardInv' /\ FiredInv'
  BY <1>2 DEF EmitterInv, QueueInv, HeardInv, FiredInv, Heard, Calling, Callings
<1>8. HeardInTurn' /\ DebtsArePaid'
  BY <1>2 DEF EmitterInv, HeardInTurn, DebtsArePaid, Waits
<1> QED BY <1>1, <1>5, <1>6, <1>7, <1>8 DEF EmitterInv

\* and so does a removal.
LEMMA RemoveStep ==
  ASSUME EmitterInv, Call, e' = Counted, UNCHANGED <<queue, fired>>,
         listeners' \in [Events -> SUBSET Listeners],
         \A v \in Events : listeners'[v] \subseteq listeners[v]
  PROVE  EmitterInv'
<1>1. e' = [e EXCEPT !.calls = e.calls + 1] /\ e.calls + 1 \in 0..Calls
  BY DEF Counted, Call, EmitterInv, EmitterTypeOK
<1>2. EmitterTypeOK'
  BY <1>1 DEF EmitterInv, EmitterTypeOK
<1>3. /\ e'.calls = e.calls + 1 /\ e'.regs = e.regs /\ e'.emits = e.emits
      /\ e'.owed = e.owed /\ e'.heard = e.heard
      /\ e.regs \in Nat /\ e.emits \in Nat /\ e.calls \in Nat
  BY <1>1 DEF EmitterInv, EmitterTypeOK
<1>4. ListInv'
  <2>1. \A w \in Events : IsFiniteSet(listeners'[w])
    BY FS_Subset DEF EmitterInv, ListInv
  <2> QED BY <1>3, <2>1 DEF EmitterInv, ListInv
<1>5. OwedInv'
  BY <1>3 DEF EmitterInv, OwedInv
<1>6. QueueInv' /\ HeardInv' /\ FiredInv'
  BY <1>3 DEF EmitterInv, QueueInv, HeardInv, FiredInv, Heard, Calling, Callings
<1>7. HeardInTurn' /\ DebtsArePaid'
  BY <1>3 DEF EmitterInv, HeardInTurn, DebtsArePaid, Waits
<1> QED BY <1>2, <1>4, <1>5, <1>6, <1>7 DEF EmitterInv

-------------------------------------------------------------------------------
\* An emission: what it queues comes after all that is queued or was heard.
LEMMA EmitStep ==
  ASSUME EmitterInv, NEW v \in Events, Emit(v)
  PROVE  EmitterInv'
<1> DEFINE n == e.emits + 1
           ls == listeners[v]
<1>1. PICK q \in Lists(ls) : queue' = queue \o [i \in DOMAIN q |-> Job(q[i], n, FALSE)]
  BY DEF Emit
<1> DEFINE js == [i \in DOMAIN q |-> Job(q[i], n, FALSE)]
           k == Len(queue)
<1>2. ls \in SUBSET Listeners /\ IsFiniteSet(ls)
  BY DEF EmitterInv, EmitterTypeOK, ListInv
<1>3. q \in Seq(ls) /\ \A l \in ls : \E i \in DOMAIN q : q[i] = l
  BY <1>2, ListHasAll
<1>4. \A i, j \in DOMAIN q : i < j => q[i].reg < q[j].reg
  BY DEF Lists
<1>5. /\ e.regs \in Nat /\ e.emits \in Nat /\ e.calls \in Nat
      /\ n \in 1..Calls /\ e.calls + 1 \in 0..Calls
  BY DEF Emit, Call, EmitterInv, EmitterTypeOK, ListInv
<1>6. /\ e'.calls = e.calls + 1 /\ e'.regs = e.regs /\ e'.emits = n /\ e'.heard = e.heard
      /\ e'.owed = e.owed \cup {Heard(l, n) : l \in ls}
      /\ e' = [regs |-> e'.regs, emits |-> e'.emits, calls |-> e'.calls,
              owed |-> e'.owed, heard |-> e'.heard]
      /\ listeners' = listeners /\ fired' = fired
  BY DEF Emit, Counted, EmitterInv, EmitterTypeOK
<1>7. \A l \in ls : /\ Heard(l, n) \in Hearings /\ Heard(l, n).reg = l.reg
                    /\ Heard(l, n).once = l.once /\ Heard(l, n).n = n
  BY <1>2, <1>5, HeardTyped
<1>8. js \in Seq(Jobs) /\ queue \in Seq(Jobs)
  <2>1. \A i \in DOMAIN q : js[i] \in Jobs
    BY <1>2, <1>3, <1>5 DEF Job, Jobs
  <2>2. DOMAIN q = 1..Len(q) /\ Len(q) \in Nat
    BY <1>3
  <2>3. queue \in Seq(Jobs)
    BY DEF EmitterInv, EmitterTypeOK, Jobs
  <2>4. js \in [1..Len(q) -> Jobs]
    BY <2>1, <2>2
  <2>5. js \in Seq(Jobs)
    BY ONLY <2>2, <2>4, IsSeq
  <2> QED BY <2>3, <2>5
<1>9. /\ queue' \in Seq(Jobs) /\ k \in Nat
      /\ \A i \in DOMAIN queue : i \in Nat /\ i <= k /\ i \in DOMAIN queue' /\ queue'[i] = queue[i]
      /\ \A i \in DOMAIN q : /\ i \in Nat \ {0} /\ k + i \in DOMAIN queue'
                             /\ queue'[k + i] = Job(q[i], n, FALSE)
      /\ \A i \in DOMAIN queue' :
           \/ i \in DOMAIN queue
           \/ i > k /\ i - k \in DOMAIN q /\ i = k + (i - k)
  <2>1. DOMAIN js = DOMAIN q /\ \A i \in DOMAIN q : js[i] = Job(q[i], n, FALSE)
    OBVIOUS
  <2>2. queue' = queue \o js
    BY <1>1
  <2> HIDE DEF js
  <2>3. /\ queue \o js \in Seq(Jobs) /\ Len(queue) \in Nat
        /\ \A i \in DOMAIN queue : /\ i \in Nat /\ i <= Len(queue) /\ i \in DOMAIN (queue \o js)
                                  /\ (queue \o js)[i] = queue[i]
        /\ \A i \in DOMAIN js : /\ i \in Nat \ {0} /\ Len(queue) + i \in DOMAIN (queue \o js)
                                /\ (queue \o js)[Len(queue) + i] = js[i]
        /\ \A i \in DOMAIN (queue \o js) :
              \/ i \in DOMAIN queue
              \/ i > Len(queue) /\ i - Len(queue) \in DOMAIN js /\ i = Len(queue) + (i - Len(queue))
    BY ONLY <1>8, ListsJoined
  <2> QED BY <2>1, <2>2, <2>3
<1> HIDE DEF js, k
<1>10. \A i \in DOMAIN queue' :
         \/ i \in DOMAIN queue /\ queue'[i] = queue[i] /\ i <= k
         \/ /\ i > k /\ i - k \in DOMAIN q /\ queue'[i] = Job(q[i - k], n, FALSE)
            /\ ~queue'[i].call /\ queue'[i].of = q[i - k] /\ queue'[i].n = n /\ q[i - k] \in ls
  <2> TAKE i \in DOMAIN queue'
  <2>1. CASE i \in DOMAIN queue
    BY <1>9, <2>1
  <2>2. CASE i > k /\ i - k \in DOMAIN q /\ i = k + (i - k)
    <3>1. queue'[i] = Job(q[i - k], n, FALSE) /\ q[i - k] \in ls
      <4>1. q[i - k] \in ls
        BY <1>3, <2>2
      <4>2. queue'[k + (i - k)] = Job(q[i - k], n, FALSE)
        BY <1>9, <2>2
      <4> QED BY <2>2, <4>1, <4>2
    <3> QED BY <2>2, <3>1 DEF Job
  <2> QED BY <1>9, <2>1, <2>2
<1>11. EmitterTypeOK'
  <2>1. e'.owed \in SUBSET Hearings
    BY <1>6, <1>7 DEF EmitterInv, EmitterTypeOK
  <2>2. e' \in [regs : 0..Calls, emits : 0..Calls, calls : 0..Calls,
                owed : SUBSET Hearings, heard : Seq(Hearings)]
    BY <1>5, <1>6, <2>1 DEF EmitterInv, EmitterTypeOK
  <2> QED BY <1>6, <1>9, <2>2 DEF EmitterInv, EmitterTypeOK, Jobs
<1>12. \A o \in e.owed : o \in Hearings /\ o.reg \in Nat /\ o.n \in Nat /\ o.reg <= e.regs /\ o.n <= e.emits
  BY DEF EmitterInv, OwedInv, EmitterTypeOK, Hearings
<1>13. \A l \in ls : l.reg <= e.regs /\ l.reg \notin fired /\ l.reg \in Nat
  BY <1>2 DEF EmitterInv, ListInv, Listeners
<1>14. ListInv'
  BY <1>5, <1>6 DEF EmitterInv, ListInv
<1>15. OwedInv'
  <2>1. \A o \in e'.owed : o.reg <= e'.regs /\ o.n <= e'.emits
    BY <1>5, <1>6, <1>7, <1>12, <1>13
  <2>2. \A o, p \in e'.owed : o.reg = p.reg => o.once = p.once
    BY <1>6, <1>7 DEF EmitterInv, OwedInv, ListInv
  <2>3. \A o \in e'.owed : \A w \in Events : \A l \in listeners'[w] :
          l.reg = o.reg => l.once = o.once
    BY <1>6, <1>7 DEF EmitterInv, OwedInv, ListInv
  <2> QED BY <2>1, <2>2, <2>3 DEF OwedInv
<1>16. QueueInv'
  <2>1. \A i \in DOMAIN queue' : Heard(queue'[i].of, queue'[i].n) \in e'.owed
    BY <1>6, <1>10 DEF EmitterInv, QueueInv
  <2>2. \A i \in DOMAIN queue' :
          queue'[i].call => queue'[i].of.once /\ queue'[i].of.reg \in fired'
    BY <1>6, <1>10 DEF EmitterInv, QueueInv
  <2>3. \A i \in DOMAIN queue : queue[i].n < n
    <3> SUFFICES ASSUME NEW i \in DOMAIN queue PROVE queue[i].n < n
      OBVIOUS
    <3>1. Heard(queue[i].of, queue[i].n) \in e.owed
      BY DEF EmitterInv, QueueInv
    <3>2. Heard(queue[i].of, queue[i].n).n = queue[i].n
      BY DEF Heard
    <3> QED BY <1>5, <1>12, <3>1, <3>2
  <2>4. ASSUME NEW i \in DOMAIN queue', NEW j \in DOMAIN queue', i < j,
               ~queue'[i].call, ~queue'[j].call
        PROVE  Sooner(queue'[i].n, queue'[i].of.reg, queue'[j].n, queue'[j].of.reg)
    <3>1. CASE j \in DOMAIN queue /\ queue'[j] = queue[j] /\ j <= k
      <4>1. i \in DOMAIN queue /\ queue'[i] = queue[i]
        BY <1>9, <1>10, <2>4, <3>1
      <4> QED BY <2>4, <3>1, <4>1 DEF EmitterInv, QueueInv
    <3>2. CASE j - k \in DOMAIN q /\ queue'[j].n = n /\ queue'[j].of = q[j - k]
      <4>1. CASE i \in DOMAIN queue /\ queue'[i] = queue[i]
        BY <2>3, <3>2, <4>1 DEF Sooner
      <4>2. CASE i - k \in DOMAIN q /\ queue'[i].n = n /\ queue'[i].of = q[i - k]
        <5>1. i \in Int /\ j \in Int
          BY <1>9
        <5>2. i - k < j - k
          BY <1>9, <2>4, <5>1
        <5> QED BY <1>4, <3>2, <4>2, <5>2 DEF Sooner
      <4> QED BY <1>10, <4>1, <4>2
    <3> QED BY <1>10, <3>1, <3>2
  <2>5. ASSUME NEW i \in DOMAIN e'.heard, NEW j \in DOMAIN queue', ~e'.heard[i].once, ~queue'[j].call
        PROVE  Sooner(e'.heard[i].n, e'.heard[i].reg, queue'[j].n, queue'[j].of.reg)
    <3>1. e.heard[i] \in e.owed
      BY <1>6 DEF EmitterInv, HeardInv
    <3>2. e.heard[i].n < n
      BY <1>5, <1>12, <3>1
    <3>3. CASE j \in DOMAIN queue /\ queue'[j] = queue[j]
      BY <1>6, <2>5, <3>3 DEF EmitterInv, QueueInv
    <3>4. CASE queue'[j].n = n
      BY <1>6, <3>2, <3>4 DEF Sooner
    <3> QED BY <1>10, <3>3, <3>4
  <2>6. \A i \in DOMAIN queue' : queue'[i].call =>
          \A o \in e'.owed : o.reg = queue'[i].of.reg => queue'[i].n <= o.n
    <3> SUFFICES ASSUME NEW i \in DOMAIN queue', queue'[i].call, NEW o \in e'.owed,
                        o.reg = queue'[i].of.reg
                 PROVE  queue'[i].n <= o.n
      OBVIOUS
    <3>1. i \in DOMAIN queue /\ queue'[i] = queue[i] /\ queue[i].of.reg \in fired
      BY <1>10 DEF EmitterInv, QueueInv
    <3>2. o \in e.owed
      BY <1>6, <1>7, <1>13, <3>1
    <3> QED BY <3>1, <3>2 DEF EmitterInv, QueueInv
  <2> QED BY <2>1, <2>2, <2>4, <2>5, <2>6 DEF QueueInv
<1>17. HeardInv'
  <2>1. \A i \in DOMAIN e.heard : e.heard[i].once => e.heard[i].reg \in fired
    BY DEF EmitterInv, HeardInv
  <2>2. ASSUME NEW i \in DOMAIN e.heard, e.heard[i].once, NEW o \in e'.owed,
               o.reg = e.heard[i].reg
        PROVE  e.heard[i].n <= o.n
    <3>1. o \in e.owed
      BY <1>6, <1>7, <1>13, <2>1, <2>2
    <3> QED BY <2>2, <3>1 DEF EmitterInv, HeardInv
  <2> QED BY <1>6, <2>1, <2>2 DEF EmitterInv, HeardInv
<1>18. FiredInv'
  <2> SUFFICES ASSUME NEW r \in fired'
               PROVE  /\ \A o \in e'.owed : o.reg = r => o.once
                      /\ \A i, j \in Calling(r)' : i = j
                      /\ \A i, j \in Callings(r)' : i = j
                      /\ Calling(r)' = {} <=> Callings(r)' # {}
    BY DEF FiredInv
  <2>1. r \in fired
    BY <1>6
  <2>2. Callings(r)' = Callings(r)
    BY <1>6 DEF Callings
  <2>3. Calling(r)' = Calling(r)
    BY <1>9, <1>10 DEF Calling
  <2>4. \A o \in e'.owed : o.reg = r => o \in e.owed
    BY <1>6, <1>7, <1>13, <2>1
  <2> QED BY <2>1, <2>2, <2>3, <2>4 DEF EmitterInv, FiredInv
<1>19. HeardInTurn'
  BY <1>6 DEF EmitterInv, HeardInTurn
<1>20. DebtsArePaid'
  <2>1. \A i \in DOMAIN e'.heard : e'.heard[i] \in e'.owed
    BY <1>6 DEF EmitterInv, DebtsArePaid
  <2>2. ASSUME NEW o \in e'.owed
        PROVE  Waits(o)' \/ (\E i \in DOMAIN e'.heard : e'.heard[i] = o) \/ (o.once /\ o.reg \in fired')
    <3>1. CASE o \in e.owed
      BY <1>6, <1>9, <3>1 DEF EmitterInv, DebtsArePaid, Waits
    <3>2. ASSUME NEW l \in ls, o = Heard(l, n)
          PROVE  Waits(o)'
      <4>1. PICK i \in DOMAIN q : q[i] = l
        BY <1>3
      <4>2. k + i \in DOMAIN queue' /\ queue'[k + i].of.reg = o.reg /\ queue'[k + i].n = o.n
        <5>1. k + i \in DOMAIN queue' /\ queue'[k + i] = Job(l, n, FALSE)
          BY <1>9, <4>1
        <5>2. o.reg = l.reg /\ o.n = n
          BY <1>7, <3>2
        <5> QED BY <5>1, <5>2 DEF Job
      <4> QED BY <4>2 DEF Waits
    <3> QED BY <1>6, <3>1, <3>2
  <2> QED BY <2>1, <2>2 DEF DebtsArePaid
<1> QED BY <1>11, <1>14, <1>15, <1>16, <1>17, <1>18, <1>19, <1>20 DEF EmitterInv

-------------------------------------------------------------------------------
\* The callback at the head of the queue is taken: the others move up.
Shifted(q) ==
  /\ \A i \in DOMAIN q : i \in Nat \ {0} /\ i + 1 \in DOMAIN queue /\ q[i] = queue[i + 1]
  /\ \A i \in DOMAIN queue : i # 1 => i - 1 \in DOMAIN q /\ q[i - 1] = queue[i]

\* A function of the script is called: it is the one whose turn it is.
LEMMA RunListenerStep ==
  ASSUME EmitterInv, RunListener
  PROVE  EmitterInv'
<1> DEFINE j == queue[1]
           h == Heard(queue[1].of, queue[1].n)
           m == Len(e.heard) + 1
<1>1. /\ 1 \in DOMAIN queue /\ Head(queue) = j /\ queue' = Tail(queue)
      /\ queue' \in Seq(Jobs) /\ Shifted(queue')
  <2>1. queue \in Seq(Jobs) /\ queue # <<>> /\ queue' = Tail(queue)
    BY DEF EmitterInv, EmitterTypeOK, Jobs, RunListener
  <2> QED BY <2>1, JobTaken DEF Shifted
<1>2. j.call \/ ~j.of.once
  BY <1>1 DEF RunListener
<1>3. /\ j.of \in Listeners /\ j.n \in 1..Calls /\ j.call \in BOOLEAN /\ j.of.once \in BOOLEAN
      /\ j.of.reg \in Nat
  BY <1>1, InQueue DEF EmitterInv
<1>4. /\ h \in Hearings /\ h.reg = j.of.reg /\ h.once = j.of.once /\ h.n = j.n
  BY <1>3, HeardTyped
<1>5. h \in e.owed /\ (j.call => j.of.once /\ j.of.reg \in fired)
  BY <1>1 DEF EmitterInv, QueueInv
<1>6. /\ e'.heard = Append(e.heard, h) /\ e'.owed = e.owed
      /\ e'.regs = e.regs /\ e'.emits = e.emits /\ e'.calls = e.calls
      /\ e' = [regs |-> e'.regs, emits |-> e'.emits, calls |-> e'.calls,
              owed |-> e'.owed, heard |-> e'.heard]
      /\ listeners' = listeners /\ fired' = fired
  BY <1>1 DEF RunListener, EmitterInv, EmitterTypeOK
<1>7. /\ e'.heard \in Seq(Hearings) /\ m \in Nat
      /\ \A i \in DOMAIN e.heard : i \in Nat /\ i < m /\ i \in DOMAIN e'.heard
                                   /\ e'.heard[i] = e.heard[i]
      /\ m \in DOMAIN e'.heard /\ e'.heard[m] = h
      /\ \A i \in DOMAIN e'.heard : i \in DOMAIN e.heard \/ i = m
  <2>1. e.heard \in Seq(Hearings)
    BY DEF EmitterInv, EmitterTypeOK
  <2> HIDE DEF h
  <2>2. /\ Append(e.heard, h) \in Seq(Hearings)
        /\ \A i \in DOMAIN e.heard : /\ i \in Nat /\ i < Len(e.heard) + 1
                                     /\ i \in DOMAIN Append(e.heard, h)
                                     /\ Append(e.heard, h)[i] = e.heard[i]
        /\ Len(e.heard) + 1 \in DOMAIN Append(e.heard, h)
        /\ Append(e.heard, h)[Len(e.heard) + 1] = h
        /\ \A i \in DOMAIN Append(e.heard, h) : i \in DOMAIN e.heard \/ i = Len(e.heard) + 1
        /\ Len(e.heard) + 1 \in Nat
    BY ONLY <1>4, <2>1, JobQueued
  <2> QED BY <1>6, <2>2
<1> HIDE DEF j, h, m
<1>8. EmitterTypeOK'
  <2>1. e' \in [regs : 0..Calls, emits : 0..Calls, calls : 0..Calls,
                owed : SUBSET Hearings, heard : Seq(Hearings)]
    BY <1>6, <1>7 DEF EmitterInv, EmitterTypeOK
  <2> QED BY <1>1, <1>6, <2>1 DEF EmitterInv, EmitterTypeOK, Jobs
<1>9. ListInv' /\ OwedInv'
  BY <1>6 DEF EmitterInv, ListInv, OwedInv
<1>10. \A i \in DOMAIN queue : i \in Nat \ {0} /\ queue[i].call \in BOOLEAN
  BY InQueue DEF EmitterInv, EmitterTypeOK
<1>11. \A i \in DOMAIN queue' :
         i \in Nat \ {0} /\ i + 1 \in DOMAIN queue /\ queue'[i] = queue[i + 1] /\ 1 < i + 1
  BY <1>1 DEF Shifted
<1>12. QueueInv'
  <2>1. \A i \in DOMAIN queue' :
          /\ Heard(queue'[i].of, queue'[i].n) \in e'.owed
          /\ queue'[i].call => queue'[i].of.once /\ queue'[i].of.reg \in fired'
          /\ queue'[i].call => \A o \in e'.owed : o.reg = queue'[i].of.reg => queue'[i].n <= o.n
    BY <1>6, <1>11 DEF EmitterInv, QueueInv
  <2>2. ASSUME NEW i \in DOMAIN queue', NEW k \in DOMAIN queue', i < k,
               ~queue'[i].call, ~queue'[k].call
        PROVE  Sooner(queue'[i].n, queue'[i].of.reg, queue'[k].n, queue'[k].of.reg)
    <3>1. i + 1 < k + 1
      BY <1>11, <2>2
    <3> QED BY <1>11, <2>2, <3>1 DEF EmitterInv, QueueInv
  <2>3. ASSUME NEW i \in DOMAIN e'.heard, NEW k \in DOMAIN queue', ~e'.heard[i].once, ~queue'[k].call
        PROVE  Sooner(e'.heard[i].n, e'.heard[i].reg, queue'[k].n, queue'[k].of.reg)
    <3>1. CASE i \in DOMAIN e.heard
      BY <1>7, <1>11, <2>3, <3>1 DEF EmitterInv, QueueInv
    <3>2. CASE i = m
      <4>1. ~j.call /\ e'.heard[i] = h
        BY <1>3, <1>4, <1>5, <1>7, <2>3, <3>2
      <4>2. Sooner(j.n, j.of.reg, queue[k + 1].n, queue[k + 1].of.reg)
        BY <1>1, <1>11, <2>3, <4>1 DEF EmitterInv, QueueInv, j
      <4> QED BY <1>4, <1>11, <4>1, <4>2
    <3> QED BY <1>7, <3>1, <3>2
  <2> QED BY <2>1, <2>2, <2>3 DEF QueueInv
<1>13. HeardInv'
  <2> SUFFICES ASSUME NEW i \in DOMAIN e'.heard
               PROVE  /\ e'.heard[i] \in e'.owed
                      /\ e'.heard[i].once =>
                           /\ e'.heard[i].reg \in fired'
                           /\ \A o \in e'.owed : o.reg = e'.heard[i].reg => e'.heard[i].n <= o.n
    BY DEF HeardInv
  <2>1. CASE i \in DOMAIN e.heard
    BY <1>6, <1>7, <2>1 DEF EmitterInv, HeardInv
  <2>2. CASE i = m
    <3>1. e'.heard[i] = h /\ (h.once => j.call)
      BY <1>2, <1>4, <1>7, <2>2
    <3>2. j.call => \A o \in e.owed : o.reg = j.of.reg => j.n <= o.n
      BY <1>1 DEF EmitterInv, QueueInv, j
    <3> QED BY <1>4, <1>5, <1>6, <3>1, <3>2
  <2> QED BY <1>7, <2>1, <2>2
<1>14. FiredInv'
  <2> SUFFICES ASSUME NEW r \in fired'
               PROVE  /\ \A o \in e'.owed : o.reg = r => o.once
                      /\ \A i, k \in Calling(r)' : i = k
                      /\ \A i, k \in Callings(r)' : i = k
                      /\ Calling(r)' = {} <=> Callings(r)' # {}
    BY DEF FiredInv
  <2>1. /\ r \in fired /\ \A o \in e.owed : o.reg = r => o.once
        /\ \A i, k \in Calling(r) : i = k
        /\ \A i, k \in Callings(r) : i = k
        /\ Calling(r) = {} <=> Callings(r) # {}
    BY <1>6 DEF EmitterInv, FiredInv
  <2>2. \A i \in Calling(r)' : i \in Nat /\ i + 1 \in Calling(r)
    BY <1>11 DEF Calling
  <2>3. \A i \in Calling(r) : i = 1 \/ i - 1 \in Calling(r)'
    BY <1>1 DEF Calling, Shifted
  <2>4. CASE j.of.reg = r
    <3>1. j.call
      BY <1>2, <1>4, <1>5, <2>1, <2>4
    <3>2. 1 \in Calling(r)
      BY <1>1, <2>4, <3>1 DEF Calling, j
    <3>3. Calling(r)' = {}
      <4> SUFFICES ASSUME NEW i \in Calling(r)' PROVE FALSE
        OBVIOUS
      <4>1. i \in Nat \ {0} /\ i + 1 \in Calling(r)
        BY <1>11, <2>2 DEF Calling
      <4>2. i + 1 = 1
        BY <2>1, <3>2, <4>1
      <4> QED BY <4>1, <4>2
    <3>4. Callings(r) = {}
      BY <2>1, <3>2
    <3>5. Callings(r)' = {m}
      BY <1>4, <1>7, <2>4, <3>4 DEF Callings
    <3> QED BY <1>6, <2>1, <3>3, <3>5
  <2>5. CASE j.of.reg # r
    <3>1. Callings(r)' = Callings(r)
      BY <1>4, <1>7, <2>5 DEF Callings
    <3>2. 1 \notin Calling(r)
      BY <2>5 DEF Calling, j
    <3>3. \A i, k \in Calling(r)' : i = k
      <4> SUFFICES ASSUME NEW i \in Calling(r)', NEW k \in Calling(r)' PROVE i = k
        OBVIOUS
      <4>1. i + 1 = k + 1 /\ i \in Nat /\ k \in Nat
        BY <2>1, <2>2
      <4> QED BY <4>1
    <3>4. Calling(r)' = {} <=> Calling(r) = {}
      BY <2>2, <2>3, <3>2
    <3> QED BY <1>6, <2>1, <3>1, <3>3, <3>4
  <2> QED BY <2>4, <2>5
<1>15. HeardInTurn'
  <2> SUFFICES ASSUME NEW i \in DOMAIN e'.heard, NEW k \in DOMAIN e'.heard, i < k,
                      ~e'.heard[i].once, ~e'.heard[k].once
               PROVE  Sooner(e'.heard[i].n, e'.heard[i].reg, e'.heard[k].n, e'.heard[k].reg)
    BY DEF HeardInTurn, Sooner
  <2>1. i \in DOMAIN e.heard /\ e'.heard[i] = e.heard[i]
    <3>1. i # m
      BY <1>7
    <3> QED BY <1>7, <3>1
  <2>2. CASE k \in DOMAIN e.heard
    BY <1>7, <2>1, <2>2 DEF EmitterInv, HeardInTurn, Sooner
  <2>3. CASE k = m
    <3>1. ~j.call /\ e'.heard[k] = h
      BY <1>3, <1>4, <1>5, <1>7, <2>3
    <3>2. Sooner(e.heard[i].n, e.heard[i].reg, j.n, j.of.reg)
      BY <1>1, <2>1, <3>1 DEF EmitterInv, QueueInv, j
    <3> QED BY <1>4, <2>1, <3>1, <3>2
  <2> QED BY <1>7, <2>2, <2>3
<1>16. DebtsArePaid'
  <2>1. \A i \in DOMAIN e'.heard : e'.heard[i] \in e'.owed
    BY <1>13 DEF HeardInv
  <2>2. ASSUME NEW o \in e.owed
        PROVE  Waits(o)' \/ (\E i \in DOMAIN e'.heard : e'.heard[i] = o) \/ (o.once /\ o.reg \in fired)
    <3>1. CASE (\E i \in DOMAIN e.heard : e.heard[i] = o) \/ (o.once /\ o.reg \in fired)
      BY <1>7, <3>1
    <3>2. ASSUME NEW i \in DOMAIN queue, queue[i].of.reg = o.reg, queue[i].n = o.n
          PROVE  Waits(o)' \/ \E k \in DOMAIN e'.heard : e'.heard[k] = o
      <4>1. CASE i = 1
        <5>1. h.reg = o.reg /\ h.n = o.n
          BY <1>4, <3>2, <4>1 DEF j
        <5>2. h.once = o.once
          BY <1>5, <5>1 DEF EmitterInv, OwedInv
        <5>3. o \in Hearings
          BY DEF EmitterInv, EmitterTypeOK
        <5>4. h = o
          BY <1>4, <5>1, <5>2, <5>3 DEF Hearings
        <5> QED BY <1>7, <5>4
      <4>2. CASE i # 1
        <5>1. i - 1 \in DOMAIN queue' /\ queue'[i - 1] = queue[i]
          BY <1>1, <4>2 DEF Shifted
        <5> QED BY <3>2, <5>1 DEF Waits
      <4> QED BY <4>1, <4>2
    <3> QED BY <3>1, <3>2 DEF EmitterInv, DebtsArePaid, Waits
  <2> QED BY <1>6, <2>1, <2>2 DEF DebtsArePaid
<1> QED BY <1>8, <1>9, <1>12, <1>13, <1>14, <1>15, <1>16 DEF EmitterInv

\* A wrapper that has fired does nothing.
LEMMA WrapperIsDone ==
  ASSUME EmitterInv, RunWrapper, Head(queue).of.reg \in fired
  PROVE  EmitterInv'
<1>1. /\ 1 \in DOMAIN queue /\ Head(queue) = queue[1] /\ queue' = Tail(queue)
      /\ queue' \in Seq(Jobs) /\ Shifted(queue')
  <2>1. queue \in Seq(Jobs) /\ queue # <<>> /\ queue' = Tail(queue)
    BY DEF EmitterInv, EmitterTypeOK, Jobs, RunWrapper
  <2> QED BY <2>1, JobTaken DEF Shifted
<1>2. /\ queue[1].of.once /\ ~queue[1].call /\ queue[1].of.reg \in fired
      /\ e' = e /\ listeners' = listeners /\ fired' = fired
  BY <1>1 DEF RunWrapper
<1>3. \A i \in DOMAIN queue' :
        i \in Nat \ {0} /\ i + 1 \in DOMAIN queue /\ queue'[i] = queue[i + 1] /\ 1 < i + 1
  BY <1>1 DEF Shifted
<1>4. EmitterTypeOK' /\ ListInv' /\ OwedInv' /\ HeardInv' /\ HeardInTurn'
  BY <1>1, <1>2 DEF EmitterInv, EmitterTypeOK, Jobs, ListInv, OwedInv, HeardInv, HeardInTurn
<1>5. QueueInv'
  <2>1. \A i \in DOMAIN queue' :
          /\ Heard(queue'[i].of, queue'[i].n) \in e'.owed
          /\ queue'[i].call => queue'[i].of.once /\ queue'[i].of.reg \in fired'
          /\ queue'[i].call => \A o \in e'.owed : o.reg = queue'[i].of.reg => queue'[i].n <= o.n
    BY <1>2, <1>3 DEF EmitterInv, QueueInv
  <2>2. ASSUME NEW i \in DOMAIN queue', NEW k \in DOMAIN queue', i < k,
               ~queue'[i].call, ~queue'[k].call
        PROVE  Sooner(queue'[i].n, queue'[i].of.reg, queue'[k].n, queue'[k].of.reg)
    <3>1. i + 1 < k + 1
      BY <1>3, <2>2
    <3> QED BY <1>3, <2>2, <3>1 DEF EmitterInv, QueueInv
  <2>3. \A i \in DOMAIN e'.heard, k \in DOMAIN queue' : ~e'.heard[i].once /\ ~queue'[k].call =>
          Sooner(e'.heard[i].n, e'.heard[i].reg, queue'[k].n, queue'[k].of.reg)
    BY <1>2, <1>3 DEF EmitterInv, QueueInv
  <2> QED BY <2>1, <2>2, <2>3 DEF QueueInv
<1>6. FiredInv'
  <2> SUFFICES ASSUME NEW r \in fired'
               PROVE  /\ \A o \in e'.owed : o.reg = r => o.once
                      /\ \A i, k \in Calling(r)' : i = k
                      /\ \A i, k \in Callings(r)' : i = k
                      /\ Calling(r)' = {} <=> Callings(r)' # {}
    BY DEF FiredInv
  <2>1. /\ \A o \in e.owed : o.reg = r => o.once
        /\ \A i, k \in Calling(r) : i = k
        /\ \A i, k \in Callings(r) : i = k
        /\ Calling(r) = {} <=> Callings(r) # {}
    BY <1>2 DEF EmitterInv, FiredInv
  <2>2. \A i \in Calling(r)' : i \in Nat /\ i + 1 \in Calling(r)
    BY <1>3 DEF Calling
  <2>3. \A i \in Calling(r) : i - 1 \in Calling(r)'
    BY <1>1, <1>2 DEF Calling, Shifted
  <2>4. \A i, k \in Calling(r)' : i = k
    <3> SUFFICES ASSUME NEW i \in Calling(r)', NEW k \in Calling(r)' PROVE i = k
      OBVIOUS
    <3>1. i + 1 = k + 1 /\ i \in Nat /\ k \in Nat
      BY <2>1, <2>2
    <3> QED BY <3>1
  <2>5. Calling(r)' = {} <=> Calling(r) = {}
    BY <2>2, <2>3
  <2>6. Callings(r)' = Callings(r)
    BY <1>2 DEF Callings
  <2> QED BY <1>2, <2>1, <2>4, <2>5, <2>6
<1>7. DebtsArePaid'
  <2>1. ASSUME NEW o \in e.owed
        PROVE  Waits(o)' \/ (\E i \in DOMAIN e.heard : e.heard[i] = o) \/ (o.once /\ o.reg \in fired)
    <3>1. CASE (\E i \in DOMAIN e.heard : e.heard[i] = o) \/ (o.once /\ o.reg \in fired)
      BY <3>1
    <3>2. ASSUME NEW i \in DOMAIN queue, queue[i].of.reg = o.reg, queue[i].n = o.n
          PROVE  Waits(o)' \/ (o.once /\ o.reg \in fired)
      <4>1. CASE i = 1
        <5>1. o.reg \in fired
          BY <1>2, <3>2, <4>1
        <5> QED BY <5>1 DEF EmitterInv, FiredInv
      <4>2. CASE i # 1
        <5>1. i - 1 \in DOMAIN queue' /\ queue'[i - 1] = queue[i]
          BY <1>1, <4>2 DEF Shifted
        <5> QED BY <3>2, <5>1 DEF Waits
      <4> QED BY <4>1, <4>2
    <3> QED BY <3>1, <3>2 DEF EmitterInv, DebtsArePaid, Waits
  <2> QED BY <1>2, <2>1 DEF EmitterInv, DebtsArePaid
<1> QED BY <1>4, <1>5, <1>6, <1>7 DEF EmitterInv

\* A wrapper that fires takes its registration away and queues the call of its
\* function: none was queued or made before, and its emission is the first.
LEMMA WrapperFires ==
  ASSUME EmitterInv, RunWrapper, Head(queue).of.reg \notin fired
  PROVE  EmitterInv'
<1> DEFINE j == queue[1]
           r == queue[1].of.reg
           h == Heard(queue[1].of, queue[1].n)
           c == Job(queue[1].of, queue[1].n, TRUE)
           q == Tail(queue)
           m == Len(q) + 1
<1>1. /\ 1 \in DOMAIN queue /\ Head(queue) = j /\ q \in Seq(Jobs) /\ Shifted(q)
      /\ queue' = Append(q, c)
  <2>1. queue \in Seq(Jobs) /\ queue # <<>>
    BY DEF EmitterInv, EmitterTypeOK, Jobs, RunWrapper
  <2>2. queue' = Append(Tail(queue), Job(Head(queue).of, Head(queue).n, TRUE))
    BY DEF RunWrapper
  <2>3. 1 \in DOMAIN queue /\ Head(queue) = queue[1] /\ Tail(queue) \in Seq(Jobs)
    BY <2>1, JobTaken
  <2>4. Shifted(Tail(queue))
    BY <2>1, JobTaken DEF Shifted
  <2> QED BY <2>2, <2>3, <2>4
<1>2. /\ j.of.once /\ ~j.call /\ r \notin fired /\ e' = e /\ fired' = fired \cup {r}
      /\ listeners' = Without(r)
  BY <1>1 DEF RunWrapper
<1>3. /\ j.of \in Listeners /\ j.n \in 1..Calls /\ r \in 1..Calls /\ r = j.of.reg
  BY <1>1, InQueue DEF EmitterInv
<1>4. h \in Hearings /\ h.reg = r /\ h.once = j.of.once /\ h.n = j.n /\ h \in e.owed
  BY <1>1, <1>3, HeardTyped DEF EmitterInv, QueueInv
<1>5. c \in Jobs /\ c.of = j.of /\ c.n = j.n /\ c.call = TRUE
  BY <1>3 DEF Job, Jobs
<1> HIDE DEF c
<1>6. /\ queue' \in Seq(Jobs) /\ m \in Nat
      /\ \A i \in DOMAIN q : i \in Nat /\ i < m /\ i \in DOMAIN queue' /\ queue'[i] = q[i]
      /\ m \in DOMAIN queue' /\ queue'[m] = c
      /\ \A i \in DOMAIN queue' : i \in DOMAIN q \/ i = m
  <2> HIDE DEF q
  <2>1. /\ Append(q, c) \in Seq(Jobs)
        /\ \A i \in DOMAIN q : /\ i \in Nat /\ i < Len(q) + 1
                               /\ i \in DOMAIN Append(q, c) /\ Append(q, c)[i] = q[i]
        /\ Len(q) + 1 \in DOMAIN Append(q, c) /\ Append(q, c)[Len(q) + 1] = c
        /\ \A i \in DOMAIN Append(q, c) : i \in DOMAIN q \/ i = Len(q) + 1
        /\ Len(q) + 1 \in Nat
    BY ONLY <1>1, <1>5, JobQueued
  <2> QED BY <1>1, <2>1
<1> HIDE DEF j, r, h, q, m
<1>7. \A i \in DOMAIN q :
        /\ i \in Nat \ {0} /\ i + 1 \in DOMAIN queue /\ q[i] = queue[i + 1] /\ 1 < i + 1
        /\ queue'[i] = queue[i + 1]
  BY <1>1, <1>6 DEF Shifted
<1>8. \A i \in DOMAIN queue : i # 1 => i - 1 \in DOMAIN queue' /\ queue'[i - 1] = queue[i] /\ i - 1 # m
  BY <1>1, <1>6 DEF Shifted
<1>9. /\ listeners' \in [Events -> SUBSET Listeners]
      /\ \A v \in Events : listeners'[v] = {l \in listeners[v] : l.reg # r}
      /\ \A v \in Events : listeners'[v] \subseteq listeners[v]
  BY <1>2 DEF Without, EmitterInv, EmitterTypeOK
<1>10. EmitterTypeOK'
  BY <1>2, <1>3, <1>6, <1>9 DEF EmitterInv, EmitterTypeOK, Jobs
<1>11. ListInv'
  <2>1. r <= e.regs /\ e.regs \in Nat
    BY <1>4 DEF EmitterInv, OwedInv, EmitterTypeOK
  <2>2. fired' \subseteq 1..e'.regs
    <3>1. fired \subseteq 1..e.regs
      BY DEF EmitterInv, ListInv
    <3>2. r \in 1..e.regs
      BY <1>3, <2>1
    <3> QED BY <1>2, <3>1, <3>2
  <2>3. \A v \in Events : IsFiniteSet(listeners'[v])
    BY <1>9, FS_Subset DEF EmitterInv, ListInv
  <2>4. \A v \in Events : \A l \in listeners'[v] :
          l \in listeners[v] /\ l.reg <= e'.regs /\ l.reg \notin fired'
    BY <1>2, <1>9 DEF EmitterInv, ListInv
  <2>5. e'.regs <= e'.calls /\ e'.emits <= e'.calls
    BY <1>2 DEF EmitterInv, ListInv
  <2>6. \A v, w \in Events : \A l \in listeners'[v], k \in listeners'[w] :
          l.reg = k.reg => l.once = k.once
    BY <2>4 DEF EmitterInv, ListInv
  <2> QED BY <2>2, <2>3, <2>4, <2>5, <2>6 DEF ListInv
<1>12. OwedInv' /\ HeardInTurn'
  BY <1>2, <1>9 DEF EmitterInv, OwedInv, HeardInTurn
<1>13. HeardInv'
  BY <1>2 DEF EmitterInv, HeardInv
<1>14. \A o \in e.owed : o.reg = r => o.once
  BY <1>2, <1>4 DEF EmitterInv, OwedInv
<1>15. Callings(r) = {}
  <2> SUFFICES ASSUME NEW i \in DOMAIN e.heard, e.heard[i].reg = r PROVE FALSE
    BY DEF Callings
  <2>1. e.heard[i] \in e.owed
    BY DEF EmitterInv, HeardInv
  <2> QED BY <1>2, <1>14, <2>1 DEF EmitterInv, HeardInv
<1>16. Calling(r) = {}
  BY <1>2 DEF Calling, EmitterInv, QueueInv
<1>17. \A o \in e.owed : o.reg = r => j.n <= o.n
  <2> SUFFICES ASSUME NEW o \in e.owed, o.reg = r PROVE j.n <= o.n
    OBVIOUS
  <2>1. ~\E i \in DOMAIN e.heard : e.heard[i] = o
    BY <1>15 DEF Callings
  <2>2. PICK i \in DOMAIN queue : queue[i].of.reg = r /\ queue[i].n = o.n
    BY <1>2, <2>1 DEF EmitterInv, DebtsArePaid, Waits
  <2>3. ~queue[i].call
    BY <1>16, <2>2 DEF Calling
  <2>4. CASE i = 1
    BY <1>3, <2>2, <2>4 DEF j
  <2>5. CASE i # 1
    <3>1. 1 < i
      BY <2>5, InQueue DEF EmitterInv, EmitterTypeOK
    <3>2. Sooner(j.n, r, queue[i].n, queue[i].of.reg)
      BY <1>1, <1>2, <1>3, <2>3, <3>1 DEF EmitterInv, QueueInv, j
    <3>3. queue[i].n \in Nat /\ j.n \in Nat
      BY <1>3, InQueue DEF EmitterInv
    <3> QED BY <2>2, <3>2, <3>3 DEF Sooner
  <2> QED BY <2>4, <2>5
<1>18. QueueInv'
  <2>1. ASSUME NEW i \in DOMAIN queue'
        PROVE  /\ Heard(queue'[i].of, queue'[i].n) \in e'.owed
               /\ queue'[i].call => queue'[i].of.once /\ queue'[i].of.reg \in fired'
               /\ queue'[i].call => \A o \in e'.owed : o.reg = queue'[i].of.reg => queue'[i].n <= o.n
    <3>1. CASE i \in DOMAIN q
      BY <1>2, <1>7, <3>1 DEF EmitterInv, QueueInv
    <3>2. CASE i = m
      <4>1. Heard(c.of, c.n) = h
        BY <1>5 DEF h, j
      <4> QED BY <1>2, <1>3, <1>4, <1>5, <1>6, <1>17, <3>2, <4>1
    <3> QED BY <1>6, <3>1, <3>2
  <2>2. ASSUME NEW i \in DOMAIN queue', ~queue'[i].call
        PROVE  i \in DOMAIN q
    BY <1>5, <1>6, <2>2
  <2>3. ASSUME NEW i \in DOMAIN queue', NEW k \in DOMAIN queue', i < k,
               ~queue'[i].call, ~queue'[k].call
        PROVE  Sooner(queue'[i].n, queue'[i].of.reg, queue'[k].n, queue'[k].of.reg)
    <3>1. i \in DOMAIN q /\ k \in DOMAIN q
      BY <2>2, <2>3
    <3>2. i + 1 < k + 1
      BY <1>7, <2>3, <3>1
    <3> QED BY <1>7, <2>3, <3>1, <3>2 DEF EmitterInv, QueueInv
  <2>4. \A i \in DOMAIN e'.heard, k \in DOMAIN queue' : ~e'.heard[i].once /\ ~queue'[k].call =>
          Sooner(e'.heard[i].n, e'.heard[i].reg, queue'[k].n, queue'[k].of.reg)
    BY <1>2, <1>7, <2>2 DEF EmitterInv, QueueInv
  <2> QED BY <2>1, <2>3, <2>4 DEF QueueInv
<1>19. FiredInv'
  <2> SUFFICES ASSUME NEW s \in fired'
               PROVE  /\ \A o \in e'.owed : o.reg = s => o.once
                      /\ \A i, k \in Calling(s)' : i = k
                      /\ \A i, k \in Callings(s)' : i = k
                      /\ Calling(s)' = {} <=> Callings(s)' # {}
    BY DEF FiredInv
  <2>1. Callings(s)' = Callings(s)
    BY <1>2 DEF Callings
  <2>2. ASSUME NEW i \in Calling(s)', i # m
        PROVE  i \in Nat /\ i + 1 \in Calling(s)
    <3>1. i \in DOMAIN queue' /\ queue'[i].call /\ queue'[i].of.reg = s
      BY DEF Calling
    <3>2. i \in DOMAIN q
      BY <1>6, <2>2, <3>1
    <3> QED BY <1>7, <3>1, <3>2 DEF Calling
  <2>3. \A i \in Calling(s) : i - 1 \in Calling(s)'
    BY <1>2, <1>8 DEF Calling, j
  <2>4. CASE s = r
    <3>1. Calling(s)' = {m}
      <4>1. m \in Calling(s)'
        BY <1>3, <1>5, <1>6, <2>4 DEF Calling
      <4> QED BY <1>16, <2>2, <2>4, <4>1
    <3> QED BY <1>2, <1>14, <1>15, <2>1, <2>4, <3>1
  <2>5. CASE s # r
    <3>1. s \in fired
      BY <1>2, <2>5
    <3>2. /\ \A o \in e.owed : o.reg = s => o.once
          /\ \A i, k \in Calling(s) : i = k
          /\ \A i, k \in Callings(s) : i = k
          /\ Calling(s) = {} <=> Callings(s) # {}
      BY <3>1 DEF EmitterInv, FiredInv
    <3>3. m \notin Calling(s)'
      BY <1>3, <1>5, <1>6, <2>5 DEF Calling
    <3>4. \A i, k \in Calling(s)' : i = k
      <4> SUFFICES ASSUME NEW i \in Calling(s)', NEW k \in Calling(s)' PROVE i = k
        OBVIOUS
      <4>1. i + 1 = k + 1 /\ i \in Nat /\ k \in Nat
        BY <2>2, <3>2, <3>3
      <4> QED BY <4>1
    <3>5. Calling(s)' = {} <=> Calling(s) = {}
      BY <2>2, <2>3, <3>3
    <3> QED BY <1>2, <2>1, <3>2, <3>4, <3>5
  <2> QED BY <2>4, <2>5
<1>20. DebtsArePaid'
  <2>1. ASSUME NEW o \in e.owed
        PROVE  Waits(o)' \/ (\E i \in DOMAIN e.heard : e.heard[i] = o) \/ (o.once /\ o.reg \in fired')
    <3>1. CASE (\E i \in DOMAIN e.heard : e.heard[i] = o) \/ (o.once /\ o.reg \in fired)
      BY <1>2, <3>1
    <3>2. ASSUME NEW i \in DOMAIN queue, queue[i].of.reg = o.reg, queue[i].n = o.n
          PROVE  Waits(o)'
      <4>1. CASE i = 1
        BY <1>5, <1>6, <3>2, <4>1 DEF Waits, j
      <4>2. CASE i # 1
        BY <1>8, <3>2, <4>2 DEF Waits
      <4> QED BY <4>1, <4>2
    <3> QED BY <3>1, <3>2 DEF EmitterInv, DebtsArePaid, Waits
  <2> QED BY <1>2, <2>1 DEF EmitterInv, DebtsArePaid
<1> QED BY <1>10, <1>11, <1>12, <1>13, <1>18, <1>19, <1>20 DEF EmitterInv

-------------------------------------------------------------------------------
\* The invariant holds at first, in every step, and so always.
LEMMA EmitterBegins == EmitterInit => EmitterInv
<1> SUFFICES ASSUME EmitterInit PROVE EmitterInv
  OBVIOUS
<1>1. EmitterTypeOK
  BY DEF EmitterInit, EmitterTypeOK
<1>2. ListInv
  BY FS_EmptySet DEF EmitterInit, ListInv
<1>3. OwedInv /\ QueueInv /\ HeardInv /\ FiredInv /\ HeardInTurn /\ DebtsArePaid
  BY DEF EmitterInit, OwedInv, QueueInv, HeardInv, FiredInv, HeardInTurn, DebtsArePaid
<1> QED BY <1>1, <1>2, <1>3 DEF EmitterInv

LEMMA EmitterSteps == EmitterInv /\ [EmitterNext]_emitterVars => EmitterInv'
<1> SUFFICES ASSUME EmitterInv, [EmitterNext]_emitterVars PROVE EmitterInv'
  OBVIOUS
<1>1. listeners \in [Events -> SUBSET Listeners]
  BY DEF EmitterInv, EmitterTypeOK
<1>2. ASSUME NEW v \in Events, NEW f \in Fns, On(v, f) PROVE EmitterInv'
  BY <1>2, RegisterStep DEF On
<1>3. ASSUME NEW v \in Events, NEW f \in Fns, Once(v, f) PROVE EmitterInv'
  BY <1>3, RegisterStep DEF Once
<1>4. ASSUME NEW v \in Events, NEW f \in Fns, Off(v, f) PROVE EmitterInv'
  <2>1. /\ listeners' \in [Events -> SUBSET Listeners]
        /\ \A w \in Events : listeners'[w] \subseteq listeners[w]
    BY <1>1, <1>4 DEF Off
  <2> QED BY <1>4, <2>1, RemoveStep DEF Off
<1>5. ASSUME NEW v \in Events, NEW l \in listeners[v], OffWrapper(v, l) PROVE EmitterInv'
  <2>1. /\ listeners' \in [Events -> SUBSET Listeners]
        /\ \A w \in Events : listeners'[w] \subseteq listeners[w]
    BY <1>1, <1>5 DEF OffWrapper
  <2> QED BY <1>5, <2>1, RemoveStep DEF OffWrapper
<1>6. ASSUME NEW v \in Events, RemoveAll(v) PROVE EmitterInv'
  <2>1. /\ listeners' \in [Events -> SUBSET Listeners]
        /\ \A w \in Events : listeners'[w] \subseteq listeners[w]
    BY <1>1, <1>6 DEF RemoveAll
  <2> QED BY <1>6, <2>1, RemoveStep DEF RemoveAll
<1>7. ASSUME NEW v \in Events, Emit(v) PROVE EmitterInv'
  BY <1>7, EmitStep
<1>8. CASE RunListener
  BY <1>8, RunListenerStep
<1>9. CASE RunWrapper
  BY <1>9, WrapperIsDone, WrapperFires
<1>10. CASE UNCHANGED emitterVars
  <2>1. EmitterTypeOK' /\ ListInv' /\ OwedInv' /\ HeardInv' /\ HeardInTurn'
    BY <1>10 DEF emitterVars, EmitterInv, EmitterTypeOK, ListInv, OwedInv, HeardInv, HeardInTurn
  <2>2. QueueInv' /\ FiredInv' /\ DebtsArePaid'
    BY <1>10 DEF emitterVars, EmitterInv, QueueInv, FiredInv, DebtsArePaid, Calling, Callings, Waits
  <2> QED BY <2>1, <2>2 DEF EmitterInv
<1> QED BY <1>2, <1>3, <1>4, <1>5, <1>6, <1>7, <1>8, <1>9, <1>10 DEF EmitterNext

\* The invariant gives what listeners rely on.
LEMMA EmitterHears == EmitterInv => EmissionsAreHeard
<1> SUFFICES ASSUME EmitterInv PROVE EmissionsAreHeard
  OBVIOUS
<1>1. ASSUME NEW i \in DOMAIN e.heard, e.heard[i].once
      PROVE  /\ Callings(e.heard[i].reg) = {i} /\ Calling(e.heard[i].reg) = {}
             /\ \A o \in e.owed : o.reg = e.heard[i].reg => e.heard[i].n <= o.n
  <2>1. e.heard[i].reg \in fired
    BY <1>1 DEF EmitterInv, HeardInv
  <2>2. i \in Callings(e.heard[i].reg)
    BY DEF Callings
  <2>3. Callings(e.heard[i].reg) = {i} /\ Calling(e.heard[i].reg) = {}
    BY <2>1, <2>2 DEF EmitterInv, FiredInv
  <2> QED BY <1>1, <2>3 DEF EmitterInv, HeardInv
<1>2. ASSUME NEW r \in fired
      PROVE  /\ \A v \in Events : \A l \in listeners[v] : l.reg # r
             /\ Cardinality(Callings(r)) + Cardinality(Calling(r)) = 1
  <2>1. \A v \in Events : \A l \in listeners[v] : l.reg # r
    BY DEF EmitterInv, ListInv
  <2>2. /\ \A i, k \in Calling(r) : i = k
        /\ \A i, k \in Callings(r) : i = k
        /\ Calling(r) = {} <=> Callings(r) # {}
    BY DEF EmitterInv, FiredInv
  <2>3. CASE Calling(r) = {}
    <3>1. PICK i \in Callings(r) : TRUE
      BY <2>2, <2>3
    <3>2. Callings(r) = {i}
      BY <2>2, <3>1
    <3>3. Cardinality({i}) = 1 /\ Cardinality({}) = 0
      BY FS_Singleton, FS_EmptySet
    <3> QED BY <2>1, <2>3, <3>2, <3>3
  <2>4. CASE Calling(r) # {}
    <3>1. PICK i \in Calling(r) : TRUE
      BY <2>4
    <3>2. Calling(r) = {i} /\ Callings(r) = {}
      BY <2>2, <2>4, <3>1
    <3>3. Cardinality({i}) = 1 /\ Cardinality({}) = 0
      BY FS_Singleton, FS_EmptySet
    <3> QED BY <2>1, <3>2, <3>3
  <2> QED BY <2>3, <2>4
<1>3. OnceIsOnce /\ FiredIsGone
  BY <1>1, <1>2 DEF OnceIsOnce, FiredIsGone
<1> QED BY <1>3 DEF EmitterInv, EmissionsAreHeard

LEMMA EmitterKeeps == EmitterSpec => []EmitterInv
<1>1. EmitterInit => EmitterInv
  BY EmitterBegins
<1>2. EmitterInv /\ [EmitterNext]_emitterVars => EmitterInv'
  BY EmitterSteps
<1> QED BY <1>1, <1>2, PTL DEF EmitterSpec

\* The lists, the queue and the history of an emitter keep their types: on, once,
\* off, emit and the callbacks of the two kinds of listeners.
THEOREM EmitterIsTyped == EmitterSpec => []EmitterTypeOK
<1>1. EmitterSpec => []EmitterInv
  BY EmitterKeeps
<1>2. EmitterInv => EmitterTypeOK
  BY DEF EmitterInv
<1> QED BY <1>1, <1>2, PTL

\* A function given to once() is called once, for the first emission made while it
\* was registered; those of on() hear the emissions in order; whoever is on the
\* list at an emission is called although it is removed before its turn (emit
\* copies the list and enqueues a callback for each).
THEOREM EmissionsReachListeners == EmitterSpec => []EmissionsAreHeard
<1>1. EmitterSpec => []EmitterInv
  BY EmitterKeeps
<1>2. EmitterInv => EmissionsAreHeard
  BY EmitterHears
<1> QED BY <1>1, <1>2, PTL

-----------------------------------------------------------------------------
\* The loader, the emitter, the server and the client.
LibraryInv == LoaderInv /\ EmitterInv /\ HttpInv

\* The four components are whole when the program begins,
LEMMA LibraryStarts == MCInit => LibraryInv
<1> SUFFICES ASSUME MCInit
             PROVE  LibraryInv
  OBVIOUS
<1>1. Init /\ EmitterInit
  BY DEF MCInit
<1> QED BY <1>1, LoaderBegins, EmitterBegins, HttpStarts DEF LibraryInv

\* and stay so, whichever of them a step is of.
LEMMA LibraryMoves == LibraryInv /\ [MCNext]_allvars => LibraryInv'
<1> SUFFICES ASSUME LibraryInv, [MCNext]_allvars
             PROVE  LibraryInv'
  OBVIOUS
<1>1. Next \/ UNCHANGED vars
  BY DEF MCNext, allvars, InLoader, InEvents, InSrv, InCli
<1>2. EmitterNext \/ UNCHANGED emitterVars
  BY DEF MCNext, allvars, InLoader, InEvents, InSrv, InCli
<1> QED BY <1>1, <1>2, LoaderSteps, EmitterSteps, HttpMoves DEF LibraryInv

\* The variables of the loader, the emitter, the HTTP server and the HTTP client
\* keep their types, whatever the files, the listeners, the peers and uv do.
THEOREM LibraryIsTyped == MCSpec => []LibraryTypeOK
<1>1. LibraryInv => LibraryTypeOK
  <2> SUFFICES ASSUME LibraryInv
               PROVE  LibraryTypeOK
    OBVIOUS
  <2>1. TypeOK /\ EmitterTypeOK
    BY DEF LibraryInv, LoaderInv, EmitterInv
  <2>2. Srv!TypeOK /\ Cli!TypeOK
    BY HttpConstantsAre, WholeServed, WholeAsked DEF LibraryInv, HttpInv
  <2> QED BY <2>1, <2>2 DEF LibraryTypeOK
<1> QED BY <1>1, LibraryStarts, LibraryMoves, PTL DEF MCSpec

=============================================================================
