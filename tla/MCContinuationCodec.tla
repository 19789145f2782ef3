------------------------ MODULE MCContinuationCodec ------------------------
(***************************************************************************)
(* Pauses of a Team with one Assistant and one file, of every kind: those  *)
(* that a restart reads back, and those that keep it from starting.        *)
(***************************************************************************)
EXTENDS Naturals, Sequences, FiniteSets, TLC

AnyJson(kind, requirements, pending) == TRUE

Codec == INSTANCE ContinuationCodec WITH
  Interrupt <- 1..65, NoText <- [none |-> TRUE], NoChallenge <- "none", Refused <- [refused |-> TRUE], Fits <- AnyJson

Ascii == [value |-> "report", size |-> 6, trimmed |-> TRUE, control |-> FALSE, printable |-> TRUE]
\* Emoji that U+200D joins into one, or a no-break space: no control character.
Joined == [Ascii EXCEPT !.value = "family", !.printable = FALSE]
\* A name of an option after a line break.
Untrimmed == [Ascii EXCEPT !.trimmed = FALSE]
NoDocs == [none |-> TRUE]

\* A pause in the first round, with the given texts and so many answered interrupts.
Pending(team, file, answered) ==
  [requests |-> <<"request">>, seen |-> {}, invoked |-> <<>>, round |-> 0,
   assistants |-> {"demo"}, files |-> {"f1"}, provider |-> "openai",
   identity |-> [name |-> team, releases |-> [a \in {"demo"} |-> "image"],
                 files |-> [f \in {"f1"} |-> file], provider |-> "openai"],
   logs |-> [i \in 1..answered |-> <<"yes">>]]

Site == [assistant |-> "demo", power |-> "publish", image |-> "image", ordinal |-> 0]

\* A requirement of each kind: title is the text that a Power or a manifest chose.
Requirements(kind, title) ==
  CASE kind = "input" ->
         << Site @@ [type |-> "choice", title |-> Ascii, summary |-> Ascii, docs |-> NoDocs, options |-> <<title>>] >>
    [] kind = "approval" ->
         << Site @@ [name |-> Ascii, title |-> title, summary |-> Ascii, docs |-> NoDocs, runs |-> "once"] >>
    [] OTHER ->
         << [assistant |-> "demo", name |-> Ascii, powers |-> {"publish"},
             wanted |-> << [name |-> title, summary |-> Ascii] >>] >>

Kinds == {"accounts", "secrets", "input", "approval"}
Saved(kind, title, p, now, left) == Codec!Persist(<<>>, 1, "c1", left, now, kind, Requirements(kind, title), p)

\* test_round_trips_every_local_suspension_kind, and a second crash: what is read
\* back is what was paused, until it expires.
ASSUME EveryKindRoundTrips ==
  \A kind \in Kinds, left \in {1, 300}, later \in {0, 299, 300} :
    LET p == Pending(Ascii, Ascii, 64)
        store == Saved(kind, Ascii, p, 1000, left)
    IN  /\ Codec!Produced(kind, Requirements(kind, Ascii), p)
        /\ Codec!Starts(store, 1000 + later)
        /\ Codec!Restored(store, 1000 + later) =
             IF later < left THEN << Codec!Pause(kind, Requirements(kind, Ascii), p) >> ELSE <<>>

\* A pause that the Controller makes, writes and cannot read: it does not start
\* with it, whatever else is in the store, until it has expired.
KeepsFromStarting(kind, title, p) ==
  LET one == Saved(kind, title, p, 1000, 300)
      both == Codec!Persist(one, 2, "c2", 300, 1000, "accounts", Requirements("accounts", Ascii), Pending(Ascii, Ascii, 0))
  IN  /\ Codec!Produced(kind, Requirements(kind, title), p)
      /\ ~Codec!Starts(both, 1001) /\ ~Codec!Starts(both, 1299) /\ Codec!Starts(both, 1300)
      /\ Codec!Starts(Codec!Delete(both, 1, "c1"), 1001)

ASSUME UnreadablePauses ==
  /\ \A kind \in Kinds : /\ KeepsFromStarting(kind, Ascii, Pending(Joined, Ascii, 0))
                         /\ KeepsFromStarting(kind, Ascii, Pending(Ascii, Joined, 0))
                         /\ KeepsFromStarting(kind, Ascii, Pending(Ascii, Ascii, 65))
  /\ \A kind \in Kinds \ {"accounts"} : KeepsFromStarting(kind, Joined, Pending(Ascii, Ascii, 0))
  /\ KeepsFromStarting("input", Untrimmed, Pending(Ascii, Ascii, 0))
=============================================================================
