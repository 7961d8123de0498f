-------------------------------- MODULE Stdin ---------------------------------
(***************************************************************************)
(* The stdin module (modules_builtins/stdin.cc): one terminal, shared by   *)
(* all its listeners.  A call changes the flags at once and leaves what it *)
(* has to do on the loop to a task; the data it reads go to the listeners  *)
(* as further tasks of the same queue.  Keys are kinds, a unit is what one *)
(* call of a data listener gets: a line, a key, or an escape sequence,     *)
(* which is gathered in a buffer until it is complete or a timer expires.  *)
(*                                                                         *)
(* Left out: prompts and what is printed, the cursor and the screen, the   *)
(* size of the terminal, setDiscardOnPause (its flag is never read), and   *)
(* the signal handlers, which end the process.                             *)
(***************************************************************************)
EXTENDS Naturals, SequencesExt, Functions, FiniteSets

CONSTANTS Keys,         \* the kinds of keys that can be typed
          Heard,        \* the events the program listens to
          KeyCount,     \* bound: keys typed and changes of the size
          StdinCalls    \* bound: calls the program makes

StdinAssumption ==
  /\ Keys \subseteq {"char", "newline", "esc", "bracket", "ctrlC", "ctrlD"}
  /\ Heard \subseteq {"data", "eof", "sigint", "resize"}
  /\ KeyCount \in Nat /\ StdinCalls \in Nat

VARIABLES io,     \* the flags, the handles and the two buffers
          ears,   \* the listeners of each event
          todo,   \* the macrotasks
          busy,   \* what the loop thread is doing
          seen    \* history: calls made, keys typed, the keys read that the
                  \* listeners are owed, and whether a pipe was refused a
                  \* write after close

vars == <<io, ears, todo, busy, seen>>

StdinEvents == {"data", "eof", "sigint", "resize"}

Task(what) == [do |-> what, ear |-> [id |-> 0, kind |-> "none"]]
Calling(ear) == [do |-> "call", ear |-> ear]
Callbacks(event) == [i \in DOMAIN ears[event] |-> Calling(ears[event][i])]

Init ==
  /\ \E tty \in BOOLEAN :
       io = [tty |-> tty, initialized |-> FALSE, closed |-> FALSE, raw |-> FALSE,
             paused |-> FALSE, discard |-> FALSE, handle |-> FALSE, reading |-> FALSE,
             rawTty |-> FALSE, winch |-> FALSE, keepalive |-> FALSE, timer |-> "none",
             line |-> <<>>, escape |-> <<>>, refused |-> FALSE, ended |-> FALSE]
  /\ ears = [event \in StdinEvents |-> <<>>]
  /\ todo = <<>> /\ busy = "script"
  /\ seen = [calls |-> 0, typed |-> 0, owed |-> <<>>, late |-> FALSE]

------------------------------------------------------------------------------
(* Calls: the flags now, the rest in a task.                                *)

Counted == [seen EXCEPT !.calls = @ + 1]
Forgotten(h) == [h EXCEPT !.owed = <<>>]
MayCall == busy \in {"script", "callback"} /\ seen.calls < StdinCalls

EnsureInit == IF io.initialized THEN todo ELSE Append(todo, Task("init"))

\* The counter of ids, as the least that nothing refers to.
InUse == {ear.id : ear \in UNION {Range(ears[event]) : event \in StdinEvents}}
         \cup {item.ear.id : item \in Range(todo)}
NewId == CHOOSE id \in 1..(Cardinality(InUse) + 1) : id \notin InUse

Listen(event, kind) ==
  ears' = [ears EXCEPT ![event] = Append(@, [id |-> NewId, kind |-> kind])]

On(event, kind) ==
  /\ MayCall /\ Listen(event, kind) /\ todo' = EnsureInit
  /\ seen' = Counted /\ UNCHANGED <<io, busy>>

\* A paused stdin is resumed, but what holds the loop meanwhile stays; one that is
\* not open is opened without the handler of the terminal's size.
Pipe ==
  /\ MayCall /\ Listen("data", "pipe")
  /\ IF io.initialized /\ io.paused
     THEN io' = [io EXCEPT !.paused = FALSE] /\ todo' = Append(todo, Task("start"))
     ELSE /\ todo' = IF io.initialized THEN todo ELSE Append(todo, Task("initPipe"))
          /\ UNCHANGED io
  /\ seen' = Counted /\ UNCHANGED busy

\* By function; the wrapper of once is not the function.  By event.
RemoveListener(event) ==
  /\ MayCall /\ ears[event] # <<>>
  /\ ears' = [ears EXCEPT ![event] = SelectSeq(@, LAMBDA ear : ear.kind # "on")]
  /\ seen' = Counted /\ UNCHANGED <<io, todo, busy>>

RemoveAllListeners(event) ==
  /\ MayCall /\ ears[event] # <<>>
  /\ ears' = [ears EXCEPT ![event] = <<>>]
  /\ seen' = Counted /\ UNCHANGED <<io, todo, busy>>

Without(id) == [event \in StdinEvents |-> SelectSeq(ears[event], LAMBDA ear : ear.id # id)]

RemoveListenerById(id) ==
  /\ MayCall /\ Without(id) # ears /\ ears' = Without(id)
  /\ seen' = Counted /\ UNCHANGED <<io, todo, busy>>

Open == io.initialized /\ ~io.closed

Pause ==
  /\ MayCall /\ Open /\ ~io.paused
  /\ io' = [io EXCEPT !.paused = TRUE] /\ todo' = Append(todo, Task("stop"))
  /\ seen' = Counted /\ UNCHANGED <<ears, busy>>

Resume ==
  /\ MayCall /\ Open /\ io.paused
  /\ io' = [io EXCEPT !.paused = FALSE, !.discard = TRUE]
  /\ todo' = Append(todo, Task("resume"))
  /\ seen' = Counted /\ UNCHANGED <<ears, busy>>

\* The buffer of the mode that is left is dropped at once, its timer later.
SetRawMode(enabled) ==
  LET stop == IF ~enabled /\ io.raw /\ io.timer # "none"
              THEN <<Task("stopTimer")>> ELSE <<>>
      switch == IF io.initialized /\ io.handle
                THEN <<Task(IF enabled THEN "raw" ELSE "normal")>> ELSE <<>>
  IN /\ MayCall
     /\ io' = [io EXCEPT !.raw = enabled,
                         !.line = IF enabled /\ ~io.raw THEN <<>> ELSE @,
                         !.escape = IF ~enabled /\ io.raw THEN <<>> ELSE @]
     /\ todo' = todo \o stop \o switch
     /\ seen' = IF enabled # io.raw THEN Forgotten(Counted) ELSE Counted
     /\ UNCHANGED <<ears, busy>>

Close ==
  /\ MayCall /\ Open
  /\ io' = [io EXCEPT !.closed = TRUE] /\ todo' = Append(todo, Task("close"))
  /\ seen' = Counted /\ UNCHANGED <<ears, busy>>

Return ==
  /\ busy \in {"script", "callback"} /\ busy' = "loop"
  /\ UNCHANGED <<io, ears, todo, seen>>

------------------------------------------------------------------------------
(* The tasks that the calls leave.                                          *)

Started(s) == [s EXCEPT !.reading = s.handle, !.ended = FALSE]

\* uv_tty_init fails where the descriptor is not a terminal's.
Initialized(winch) ==
  IF io.initialized \/ ~io.tty THEN io
  ELSE Started([io EXCEPT !.handle = TRUE, !.rawTty = io.raw, !.winch = winch,
                          !.initialized = TRUE, !.closed = FALSE, !.paused = FALSE])

Stopped == [io EXCEPT !.keepalive = TRUE, !.reading = FALSE]

Resumed ==
  [IF io.handle THEN Started([io EXCEPT !.line = <<>>]) ELSE io EXCEPT !.keepalive = FALSE]

Cleaned ==
  [io EXCEPT !.handle = FALSE, !.reading = FALSE, !.rawTty = FALSE, !.keepalive = FALSE,
             !.winch = FALSE, !.timer = "none", !.escape = <<>>, !.initialized = FALSE]

RunTask(what) ==
  /\ io' = CASE what = "init"     -> Initialized(TRUE)
             [] what = "initPipe" -> Initialized(FALSE)
             [] what = "start"    -> Started(io)
             [] what = "stop"     -> Stopped
             [] what = "resume"   -> Resumed
             [] what = "close"    -> Cleaned
             [] what = "raw"      -> [io EXCEPT !.rawTty = io.handle]
             [] what = "normal"   -> [io EXCEPT !.rawTty = FALSE]
             [] what = "stopTimer" ->
                  [io EXCEPT !.timer = IF @ = "none" THEN "none" ELSE "stopped"]
  /\ ears' = IF what = "close" THEN [event \in StdinEvents |-> <<>>] ELSE ears
  /\ seen' = IF what = (IF io.raw THEN "close" ELSE "resume") /\ io.handle
             THEN Forgotten(seen) ELSE seen
  /\ todo' = Tail(todo) /\ busy' = "loop"

LoopTask ==
  /\ busy \in {"loop", "poll"} /\ todo # <<>> /\ Head(todo).do # "call"
  /\ RunTask(Head(todo).do)

------------------------------------------------------------------------------
(* The tasks that call a listener.                                          *)

Callback(kind) ==
  /\ busy \in {"loop", "poll"} /\ todo # <<>>
  /\ Head(todo).do = "call" /\ Head(todo).ear.kind = kind

\* A function of the program.
RunListener ==
  /\ Callback("on") /\ todo' = Tail(todo) /\ busy' = "callback"
  /\ UNCHANGED <<io, ears, seen>>

\* The wrapper of once queues the function and takes itself off the list.
RunOnce ==
  /\ Callback("once")
  /\ todo' = Append(Tail(todo), Calling([Head(todo).ear EXCEPT !.kind = "on"]))
  /\ ears' = Without(Head(todo).ear.id) /\ busy' = "loop"
  /\ UNCHANGED <<io, seen>>

\* The destination takes what is written or asks to wait for its drain.
RunPipe ==
  /\ Callback("pipe") /\ busy' = "loop" /\ UNCHANGED ears
  /\ \E accepts \in BOOLEAN :
       IF accepts THEN todo' = Tail(todo) /\ UNCHANGED <<io, seen>>
       ELSE /\ io' = [io EXCEPT !.paused = TRUE, !.refused = TRUE]
            /\ todo' = IF io.paused THEN Tail(todo) ELSE Append(Tail(todo), Task("stop"))
            /\ seen' = [seen EXCEPT !.late = @ \/ io.closed]

\* It emits drain: no test here of who has paused stdin, or of closed.
Drain ==
  /\ busy \in {"loop", "poll"} /\ io.refused /\ busy' = busy
  /\ IF io.paused
     THEN /\ io' = [io EXCEPT !.refused = FALSE, !.paused = FALSE, !.discard = TRUE]
          /\ todo' = Append(todo, Task("resume"))
     ELSE io' = [io EXCEPT !.refused = FALSE] /\ UNCHANGED todo
  /\ UNCHANGED <<ears, seen>>

------------------------------------------------------------------------------
(* stdin_read_cb.  What it makes of one key is a record: the buffers, the   *)
(* timer, the tasks it adds and the units it hands on.                      *)

Events(k) == CASE k = "ctrlC" -> <<"sigint">> [] k = "ctrlD" -> <<"eof">> [] OTHER -> <<>>

HandOn(unit, r) ==
  IF io.closed THEN r
  ELSE [r EXCEPT !.tasks = @ \o Callbacks("data"), !.units = Append(@, unit)]
Announce(k, r) ==
  IF Events(k) = <<>> THEN r ELSE [r EXCEPT !.tasks = @ \o Callbacks(Head(Events(k)))]

\* is_potential_escape_sequence: ESC [ goes on to a letter, any other
\* sequence ends with its second key.
Potential(s) ==
  s[1] = "esc" /\ (Len(s) = 1 \/ (s[2] = "bracket" /\ (Len(s) = 2 \/ Last(s) # "char")))

Disarm(r) == [r EXCEPT !.timer = IF @ = "none" THEN "none" ELSE "stopped"]
Flush(r) == IF r.escape = <<>> THEN r
            ELSE Disarm([HandOn(r.escape, r) EXCEPT !.escape = <<>>])

\* Mutant: Ctrl+C does not flush what was typed before it.
RawKeyUnflushed(k, r) ==
  LET pending == [r EXCEPT !.escape = Append(@, k)]
  IN IF k \in {"ctrlC", "ctrlD"} THEN HandOn(<<k>>, Announce(k, r))
     ELSE IF k # "esc" /\ r.escape = <<>> THEN HandOn(<<k>>, r)
     ELSE IF Potential(pending.escape) THEN [pending EXCEPT !.timer = "armed"]
     ELSE Flush(pending)

RawKey(k, r) ==
  LET pending == [r EXCEPT !.escape = Append(@, k)]
  IN IF k \in {"ctrlC", "ctrlD"} THEN HandOn(<<k>>, Announce(k, Flush(r)))
     ELSE IF k # "esc" /\ r.escape = <<>> THEN HandOn(<<k>>, r)
     ELSE IF Potential(pending.escape) THEN [pending EXCEPT !.timer = "armed"]
     ELSE Flush(pending)

\* In the normal mode control keys overtake the line they are typed into.
Immediate == {"ctrlC", "ctrlD", "esc"}

LineKey(k, r) ==
  LET line == Append(r.line, k)
  IN IF k \in Immediate THEN HandOn(<<k>>, Announce(k, r))
     ELSE IF k = "newline" THEN HandOn(line, [r EXCEPT !.line = <<>>])
     ELSE [r EXCEPT !.line = line]

\* History: what is still owed when a unit has been handed on.  What is owed
\* first comes first; in the normal mode a control key may overtake the rest.
Received(owed, unit) ==
  IF IsPrefix(unit, owed) THEN SubSeq(owed, Len(unit) + 1, Len(owed))
  ELSE IF ~io.raw /\ unit[1] \in Immediate /\ IsSuffix(unit, owed)
  THEN SubSeq(owed, 1, Len(owed) - Len(unit))
  ELSE unit \o owed

KeyRead(k, r) == IF io.raw THEN RawKey(k, r) ELSE LineKey(k, r)
Unread == [line |-> io.line, escape |-> io.escape, timer |-> io.timer,
           tasks |-> <<>>, units |-> <<>>]

Polling == busy = "poll" \/ (busy = "loop" /\ todo = <<>>)

\* The first chunk after a resumption is discarded.
Dropped == [io EXCEPT !.discard = @ /\ (io.closed \/ io.paused)]

\* One key: those of a chunk are as many reads before the loop runs a task.
Read(k) ==
  LET r == KeyRead(k, Unread)
      typed == [seen EXCEPT !.typed = @ + 1]
  IN /\ Polling /\ io.reading /\ seen.typed < KeyCount /\ busy' = "poll"
     /\ IF io.closed \/ io.paused \/ io.discard
        THEN io' = Dropped /\ seen' = typed /\ UNCHANGED todo
        ELSE /\ io' = [io EXCEPT !.line = r.line, !.escape = r.escape, !.timer = r.timer]
             /\ todo' = todo \o r.tasks
             /\ seen' = [typed EXCEPT !.owed = FoldLeft(Received, Append(@, k), r.units)]
     /\ UNCHANGED ears

\* The end, or an error: libuv stops reading.
ReadEof ==
  /\ Polling /\ io.reading /\ busy' = "poll"
  /\ io' = [io EXCEPT !.reading = FALSE, !.ended = TRUE]
  /\ todo' = IF io.closed \/ io.paused THEN todo ELSE todo \o Callbacks("eof")
  /\ UNCHANGED <<ears, seen>>

EscapeTimeout ==
  LET r == Flush(Unread)
  IN /\ Polling /\ io.timer = "armed" /\ busy' = "poll"
     /\ io' = [io EXCEPT !.timer = "stopped", !.escape = <<>>]
     /\ todo' = todo \o r.tasks
     /\ seen' = [seen EXCEPT !.owed = FoldLeft(Received, @, r.units)]
     /\ UNCHANGED ears

Sigwinch ==
  /\ Polling /\ io.winch /\ seen.typed < KeyCount /\ busy' = "poll"
  /\ todo' = IF io.closed THEN todo ELSE todo \o Callbacks("resize")
  /\ seen' = [seen EXCEPT !.typed = @ + 1]
  /\ UNCHANGED <<io, ears>>

------------------------------------------------------------------------------

Script ==
  \/ \E event \in Heard : \/ On(event, "on") \/ On(event, "once")
                          \/ RemoveListener(event) \/ RemoveAllListeners(event)
  \/ \E id \in 1..StdinCalls : RemoveListenerById(id)
  \/ Pipe \/ Pause \/ Resume \/ Close \/ \E enabled \in BOOLEAN : SetRawMode(enabled)
Next ==
  \/ Script \/ Return \/ LoopTask \/ RunListener \/ RunOnce \/ RunPipe \/ Drain
  \/ (\E k \in Keys : Read(k)) \/ ReadEof \/ EscapeTimeout \/ Sigwinch

Spec == Init /\ [][Next]_vars
------------------------------------------------------------------------------

\* The fields of the record and their types.
TypeOK ==
  /\ \A f \in {"tty", "initialized", "closed", "raw", "paused", "discard", "handle",
               "reading", "rawTty", "winch", "keepalive", "refused", "ended"} :
       io[f] \in BOOLEAN
  /\ io.timer \in {"none", "stopped", "armed"}
  /\ io.line \in BoundedSeq(Keys, KeyCount) /\ io.escape \in BoundedSeq(Keys, KeyCount)
  /\ busy \in {"script", "callback", "loop", "poll"}
  /\ seen.calls <= StdinCalls /\ seen.typed <= KeyCount

\* Whatever is read, and is not discarded on resumption or with the buffer of a
\* mode that is left, is handed to the listeners once and in the order it was
\* typed, except that in the normal mode the control keys overtake the line they
\* are typed into; no control key overtakes an escape sequence.
KeepsEveryKey == seen.owed = IF io.raw THEN io.escape ELSE io.line

Settled == \A i \in DOMAIN todo : todo[i].do = "call"

\* Once the tasks of the calls have run, the terminal is what the flags say, for
\* whichever calls were made before they did: it is read if stdin is not paused,
\* in the mode of the last setRawMode, and the loop is held while it is paused.
FlagsAgree ==
  Settled /\ io.initialized =>
    /\ io.handle /\ ~io.closed /\ io.rawTty = io.raw
    /\ io.reading <=> ~io.paused /\ ~io.ended
    /\ io.paused => io.keepalive

\* What is left of an escape sequence has a timer that will hand it on, whatever
\* has been called meanwhile.
EscapeHasTimer == io.escape # <<>> => io.raw /\ io.timer = "armed"

\* A closed stdin holds the loop with nothing, unless its pipe was refused a write
\* after the call of close.
ClosedHoldsNothing ==
  Settled /\ ~io.initialized =>
    /\ ~io.handle /\ ~io.winch /\ io.timer = "none"
    /\ io.keepalive => seen.late

\* The four together.
StdinIsWhole == KeepsEveryKey /\ FlagsAgree /\ EscapeHasTimer /\ ClosedHoldsNothing
=============================================================================
