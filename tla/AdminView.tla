------------------------------ MODULE AdminView ------------------------------
(***************************************************************************)
(* The operations page: what the admin endpoints make of the health, runs, *)
(* parser failures and review items the pipeline records, and when the     *)
(* page shows them.                                                        *)
(***************************************************************************)
EXTENDS Integers, Sequences, FiniteSets
LOCAL INSTANCE SequencesExt

DefaultLimit == 50
MaxLimit == 200

\* An optional number; a fraction loses its fractional part before.
ClampLimit(limit) ==
  IF limit = {} THEN DefaultLimit
  ELSE LET n == CHOOSE n \in limit : TRUE IN
       IF n < 1 THEN 1 ELSE IF n > MaxLimit THEN MaxLimit ELSE n

ToHealth(value) ==
  IF value \in {"healthy", "degraded", "failing"} THEN value ELSE "unknown"

\* The newest rows first, as many as the limit allows.
Newest(rows, limit) ==
  LET sorted == SetToSortSeq(rows, LAMBDA a, b : a.at > b.at)
      n == ClampLimit(limit)
  IN SubSeq(sorted, 1, IF n < Len(sorted) THEN n ELSE Len(sorted))

\* Every connection, removed ones too, without a limit.
ConnectorHealth(connections) ==
  {[connection |-> c.id, health |-> ToHealth(c.health),
    failures |-> c.failures, checked |-> c.updatedAt] : c \in connections}

RecentRuns(runs, limit) == Newest(runs, limit)

ParserFailures(parserRuns, limit) ==
  Newest({r \in parserRuns : r.status \in {"validation_failed", "parse_failed"}}, limit)

\* The reason shown for a review item.  An invalid record's is told from its
\* text: whether it contains the word "parse".
MapReviewReason(kind, text) ==
  CASE kind = "uncertain_duplicate" -> "uncertain_duplicate"
    [] kind = "closure_ambiguous" -> "uncertain_closure"
    [] OTHER -> IF "parse" \in text THEN "parse_failed" ELSE "validation_failed"

ReviewQueue(items, limit) ==
  Newest({[at |-> i.at, reason |-> MapReviewReason(i.kind, i.text)] :
            i \in {j \in items : j.status = "open"}}, limit)

(***************************************************************************)
(* What the parse and normalize stages record of a record they reject: the *)
(* parser runs, and the words of the review item's text that matter.       *)
(***************************************************************************)
ParseThrows ==
  [runs |-> <<"parse_failed", "validation_failed">>, kind |-> "invalid_record",
   text |-> {"parse", "failed"}]
ParsesToNothing ==
  [runs |-> <<"validation_failed">>, kind |-> "invalid_record",
   text |-> {"parse", "record", "neither"}]
NormalizeRejects ==
  [runs |-> <<"succeeded">>, kind |-> "invalid_record",
   text |-> {"missing", "field"}]

\* A section of the page shows one thing; a refusal replaces the whole page,
\* when the health query is the one refused.
SectionShows(query, rows) ==
  CASE query = "loading" -> "skeleton"
    [] query = "error" -> "retry"
    [] rows = 0 -> "empty"
    [] OTHER -> "rows"
PageShows(health, others) ==
  IF health = "forbidden" THEN {"denied"}
  ELSE {SectionShows(IF q = "forbidden" THEN "error" ELSE q, 1) : q \in others \cup {health}}
=============================================================================
