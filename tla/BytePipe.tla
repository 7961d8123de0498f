------------------------------ MODULE BytePipe ------------------------------
\* What readable.pipe(writable) promises, whatever its two buffers, flags and
\* callbacks do: the units of the source reach the destination in order and
\* once, and "finished" is said only of a whole copy. Anything else (a failed
\* operation, a stream that the script destroys or ends itself) breaks the
\* pipe, and of a broken pipe nothing is promised but that it stays broken.
EXTENDS Naturals, Sequences

VARIABLES size,    \* units in the source, which does not change
          out,     \* units in the destination
          state    \* "open", "finished" or "broken"

pipeVars == <<size, out, state>>

Init == size \in Nat /\ out = <<>> /\ state = "open"

Deliver ==
  /\ state = "open" /\ Len(out) < size
  /\ out' = Append(out, Len(out) + 1)
  /\ UNCHANGED state

Finish == state = "open" /\ Len(out) = size /\ state' = "finished" /\ UNCHANGED out

Break == state = "open" /\ state' = "broken" /\ UNCHANGED out

Stray == state = "broken" /\ (\E c \in 1..size : out' = Append(out, c)) /\ UNCHANGED state

Next == (Deliver \/ Finish \/ Break \/ Stray) /\ UNCHANGED size
Spec == Init /\ [][Next]_pipeVars
=============================================================================
