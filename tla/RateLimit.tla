----------------------------- MODULE RateLimit -----------------------------
(***************************************************************************)
(* How many actions the gateway takes from one browser in a while: the     *)
(* head of the message handler of services/gateway/src/server.js, as a     *)
(* function of the readings of Date.now() at the messages that arrive.     *)
(***************************************************************************)
EXTENDS Integers, Sequences, FiniteSets

\* The actions still remembered: only the oldest are looked at, one by one.
\* Mutant: an action exactly one window ago is forgotten.
UnexpiredOpen(recent, now, window) ==
  LET old == {n \in 0..Len(recent) : \A j \in 1..n : recent[j] <= now - window}
  IN SubSeq(recent, 1 + CHOOSE n \in old : \A other \in old : n >= other, Len(recent))
Unexpired(recent, now, window) ==
  LET old == {n \in 0..Len(recent) : \A j \in 1..n : recent[j] < now - window}
  IN SubSeq(recent, 1 + CHOOSE n \in old : \A other \in old : n >= other, Len(recent))

\* Whether one more is taken.  Mutant: it is counted before it is taken.
RoomLate(kept, burst) == Len(kept) + 1 < burst
Room(kept, burst) == Len(kept) < burst

\* What is remembered after the messages at the first j times, and whether
\* the last of them was taken.
AfterEach(times, burst, window) ==
  LET after[j \in 0..Len(times)] ==
        IF j = 0 THEN [recent |-> <<>>, taken |-> FALSE]
        ELSE LET kept == Unexpired(after[j - 1].recent, times[j], window)
             IN [recent |-> IF Room(kept, burst) THEN Append(kept, times[j]) ELSE kept,
                 taken |-> Room(kept, burst)]
  IN after

\* The messages taken out of those that arrive at the given times.
Limiter(times, burst, window) ==
  [j \in DOMAIN times |-> AfterEach(times, burst, window)[j].taken]

\* docs/how-to-use.md:56: no more than "burst" actions in any span of a window
\* are taken, and one is refused only when that many were: refusals do not
\* count, so that a browser that keeps trying is not shut out.
RateIsExact(times, burst, window) ==
  LET taken == Limiter(times, burst, window)
      Before(j) == {n \in 1..j - 1 : taken[n] /\ times[n] >= times[j] - window}
  IN (\A j \in 2..Len(times) : times[j - 1] <= times[j]) =>
       \A j \in DOMAIN times : taken[j] <=> Cardinality(Before(j)) < burst

\* Date.now() is the wall clock and may be set back.  Then actions from the
\* future stay remembered, but never for longer than until the clock is a
\* window past all it has shown.
NobodyIsShutOut(times, burst, window) ==
  \A j \in DOMAIN times :
    (\A n \in 1..j - 1 : times[n] + window < times[j]) =>
      Limiter(times, burst, window)[j]

=============================================================================
