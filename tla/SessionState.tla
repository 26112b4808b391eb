---------------------------- MODULE SessionState -----------------------------
(***************************************************************************)
(* SessionState of session.rs as a value: the entries kept for a session   *)
(* and the questions the hooks ask of them.  An entry keeps which call     *)
(* recorded it (field `of`, which the code does not have: the properties   *)
(* name calls by it).  Token totals, previews, centroids and error         *)
(* signatures are left out: they shape the compressed text only.           *)
(***************************************************************************)
EXTENDS Naturals, Sequences

CONSTANTS
  MaxEntries,   \* MAX_ENTRIES, 30 in the code
  RecentWindow, \* seconds the polling suppressor looks back, 120 in the code
  Similar       \* pairs of texts whose embeddings are within RECENT_THRESHOLD

ASSUME SessionBound == MaxEntries \in Nat \ {0}

EmptySession == [entries |-> <<>>, total_turns |-> 0]

\* The entries with a new one at the end.
Pushed(s, of, cmd, text, embedded, now) ==
  Append(s.entries, [turn |-> s.total_turns + 1, of |-> of, cmd |-> cmd, ts |-> now,
                     text |-> text, embedded |-> embedded])

MutRecordNeverDrops(s, of, cmd, text, embedded, now) ==
  [entries |-> Pushed(s, of, cmd, text, embedded, now), total_turns |-> s.total_turns + 1]

MutRecordNumbersKept(s, of, cmd, text, embedded, now) ==
  LET all == Pushed([s EXCEPT !.total_turns = Len(s.entries)], of, cmd, text, embedded, now)
  IN  [entries |-> IF Len(all) > MaxEntries THEN Tail(all) ELSE all,
       total_turns |-> s.total_turns + 1]

\* SessionState::record: push, and drop the oldest entry over capacity.
Record(s, of, cmd, text, embedded, now) ==
  LET all == Pushed(s, of, cmd, text, embedded, now)
  IN  [entries |-> IF Len(all) > MaxEntries THEN Tail(all) ELSE all,
       total_turns |-> s.total_turns + 1]

Recent(e, now) == now <= e.ts + RecentWindow

\* Entries of cmd. A zero embedding is not an empty one, so fast-path entries count.
OfCommand(s, cmd) == {i \in DOMAIN s.entries : s.entries[i].cmd = cmd}

has_recent_entry(s, cmd, now) == \E i \in OfCommand(s, cmd) : Recent(s.entries[i], now)

MutSimilarAnyAge(s, cmd, text, now) ==
  {i \in OfCommand(s, cmd) : s.entries[i].embedded /\ <<s.entries[i].text, text>> \in Similar}

\* The positions find_similar_recent accepts: newest first it stops at the
\* first entry that is too old, and a zero embedding is similar to nothing.
SimilarRecent(s, cmd, text, now) ==
  {i \in OfCommand(s, cmd) :
     /\ s.entries[i].embedded
     /\ <<s.entries[i].text, text>> \in Similar
     /\ \A j \in OfCommand(s, cmd) : j >= i => Recent(s.entries[j], now)}

\* The entries are the last calls recorded, each with its turn and none missing, at
\* times that never go back.
EntriesAscend(s) ==
  LET n == Len(s.entries)
  IN  /\ n = IF s.total_turns < MaxEntries THEN s.total_turns ELSE MaxEntries
      /\ \A i \in DOMAIN s.entries :
           /\ s.entries[i].turn = s.total_turns - n + i
           /\ \A j \in DOMAIN s.entries : i < j => s.entries[i].ts <= s.entries[j].ts
=============================================================================
