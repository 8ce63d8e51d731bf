------------------------------ MODULE GovernedLoop ------------------------------
(***************************************************************************)
(* The governed loop of the command line (cli.py): the sources of a Task   *)
(* Contract are ingested (store.ingest), a question is answered from the   *)
(* chunks inside its perimeter (runner.py, retrieval.py, drafting.py) as a *)
(* stream of a Result Candidate and an Evidence Pack, a human decides on   *)
(* the stream (terminal_gate_standin.py), and an approval may become a     *)
(* Register Candidate (register.py).                                       *)
(*                                                                         *)
(* Each command is a process of its own.  They share the table of chunks,  *)
(* where a run reads twice, and files, which the next run overwrites and   *)
(* which anybody may write: a stream by hand, or a decision record in full *)
(* (register.py:67, "a full forgery replicating every field still passes").*)
(***************************************************************************)
EXTENDS Naturals, Sequences, FiniteSets, SequencesExt

CONSTANTS
    Contracts,
    Perimeter,  \* Perimeter[k]: the sources that contract k declares
    Chunks,     \* Chunks[s]: how many chunks the source s has
    Runners,    \* processes of `run`
    Humans, Systems, \* signers
    Handmade,   \* the documents that hands write into files, whatever they say
    Ingestions, \* bound on the number of ingestions
    RRF_K,      \* HYBRID_RRF_K
    TopK,       \* HYBRID_TOP_K
    CandidateK, \* HYBRID_CANDIDATE_K
    MaxRecords, \* bound on the decision records
    Unset

\* What a contract declares is a list; the limits are those of _validate_limits.
ASSUME LoopAssumption ==
    /\ Perimeter \in [Contracts -> SUBSET DOMAIN Chunks]
    /\ \A k \in Contracts : IsFiniteSet(Perimeter[k])
    /\ Chunks \in [DOMAIN Chunks -> Nat]
    /\ RRF_K \in Nat \ {0} /\ TopK \in Nat \ {0}
    /\ CandidateK \in Nat /\ TopK <= CandidateK

VARIABLES
    chunks,    \* the table: [key, ingestion] of the rows of one dossier
    ingestion, \* the last ingestion_id
    runner,    \* runner[p]: what a run has read
    stream,    \* the file of the candidate stream
    answered,  \* what runs wrote, with the ingestions at their two readings
    records,   \* decision records, each in its file
    retained   \* Register Candidates

loopVars == <<chunks, ingestion, runner, stream, answered, records, retained>>
store == <<chunks, ingestion>>
files == <<stream, answered, records, retained>>

Waits == [pc |-> "waits"]

Empty == [kind |-> "empty"]

\* The closed vocabulary.
Decided == {"approve", "refuse", "request_revision", "request_more_evidence"}

KeysOf(s) == {s} \X (1..Chunks[s])

RowsOf(sources, n) == {[key |-> k, ingestion |-> n] : k \in UNION {KeysOf(s) : s \in sources}}

-----------------------------------------------------------------------------
(* Ingestion.                                                              *)

Ingested(rows) ==
    /\ ingestion < Ingestions
    /\ ingestion' = ingestion + 1
    /\ chunks' = rows
    /\ UNCHANGED <<runner, files>>

\* `ingest` replaces what the dossier has.
IngestDossier(k) == Ingested(RowsOf(Perimeter[k], ingestion + 1))

\* Seeded fault: chunks are written over by number; those beyond the new ones stay.
UpsertsChunks(k, s) ==
    /\ s \in Perimeter[k]
    /\ Ingested({r \in chunks : r.key # <<s, 1>>} \cup
                   {[key |-> <<s, 1>>, ingestion |-> ingestion + 1]})

\* `intake-document` replaces what one source has.
IntakeDocument(k, s) ==
    /\ s \in Perimeter[k]
    /\ Ingested({r \in chunks : r.key[1] # s} \cup RowsOf({s}, ingestion + 1))

-----------------------------------------------------------------------------
(* Retrieval.                                                              *)

InPerimeter(k) == {r \in chunks : r.key[1] \in Perimeter[k]}

Refusal(k) ==
    [pc |-> "answered", doc |-> [kind |-> "refusal", contract |-> k], readings |-> <<>>]

\* A question that asks to send what the contract forbids to send is refused.
Ask(p, k, sends) ==
    /\ runner[p] = Waits
    /\ runner' = [runner EXCEPT ![p] =
          IF sends THEN Refusal(k) ELSE [pc |-> "asked", contract |-> k]]
    /\ UNCHANGED <<store, files>>

\* The first CandidateK of a ranking of the rows.
Rankings(rows) ==
    LET n == IF Cardinality(rows) < CandidateK THEN Cardinality(rows) ELSE CandidateK
    IN  UNION {SetToSeqs(first) : first \in kSubset(n, rows)}

\* retrieve_scoped: the chunks of the perimeter, by distance; the near ones first.
Semantic(p) ==
    /\ runner[p].pc = "asked"
    /\ \E s \in Rankings(InPerimeter(runner[p].contract)) : \E near \in 0..Len(s) :
          runner' = [runner EXCEPT ![p] =
             [pc |-> "semantic", contract |-> @.contract, semantic |-> s, near |-> near,
              read |-> ingestion]]
    /\ UNCHANGED <<store, files>>

RankIn(ranking, key) ==
    IF \E j \in DOMAIN ranking : ranking[j].key = key
    THEN CHOOSE j \in DOMAIN ranking : ranking[j].key = key
    ELSE 0

\* Seeded fault: the second score takes the place of the first.
LastScore(hit) ==
    IF hit.lexical = 0 THEN <<1, RRF_K + hit.semantic>> ELSE <<1, RRF_K + hit.lexical>>

\* The sum of the reciprocal ranks, as a fraction.
Score(hit) ==
    CASE hit.lexical = 0 -> <<1, RRF_K + hit.semantic>>
      [] hit.semantic = 0 -> <<1, RRF_K + hit.lexical>>
      [] OTHER -> <<2 * RRF_K + hit.semantic + hit.lexical,
                    (RRF_K + hit.semantic) * (RRF_K + hit.lexical)>>

\* The order of the sort: by score, then by each rank, no rank being the last.
\* Two hits share no rank, so that no two are equal in it.
Before(a, b) ==
    LET x == Score(a)[1] * Score(b)[2]
        y == Score(b)[1] * Score(a)[2]
        Rank(r) == IF r = 0 THEN CandidateK + 1 ELSE r
    IN  \/ x > y
        \/ /\ x = y
           /\ \/ Rank(a.semantic) < Rank(b.semantic)
              \/ /\ Rank(a.semantic) = Rank(b.semantic)
                 /\ Rank(a.lexical) < Rank(b.lexical)

KeysIn(ranking) == {ranking[j].key : j \in DOMAIN ranking}

\* Hits of one key are one hit, which keeps the row that the first ranking has for it.
Hit(key, semantic, lexical) ==
    LET s == RankIn(semantic, key)
        l == RankIn(lexical, key)
    IN  [row |-> IF s # 0 THEN semantic[s] ELSE lexical[l], semantic |-> s, lexical |-> l]

\* reciprocal_rank_fusion: the first TopK of all hits; their order is Before.
Fusion(semantic, lexical) ==
    LET all == {Hit(key, semantic, lexical) : key \in KeysIn(semantic) \cup KeysIn(lexical)}
    IN  {hit \in all : Cardinality({other \in all : Before(other, hit)}) < TopK}

Useful(hit, near) == hit.lexical # 0 \/ hit.semantic \in 1..near

\* retrieve_lexical_scoped: the chunks that match, by rank.
Lexical(p) ==
    /\ runner[p].pc = "semantic"
    /\ \E matching \in SUBSET InPerimeter(runner[p].contract) :
       \E l \in Rankings(matching) :
          LET fused == Fusion(runner[p].semantic, l)
              hits == {hit \in fused : Useful(hit, runner[p].near)}
          IN  runner' = [runner EXCEPT ![p] =
                 IF hits = {}
                 THEN Refusal(@.contract)
                 ELSE [pc |-> "retrieved", contract |-> @.contract, hits |-> hits,
                       rankings |-> <<@.semantic, l, fused>>,
                       readings |-> <<@.read, ingestion>>]]
    /\ UNCHANGED <<store, files>>

RowsIn(hits) == {hit.row : hit \in hits}

\* A Drafter may be anybody's; what it cites was retrieved (verify_draft), or the
\* run ends with an error.
Draft(p, cited) ==
    /\ runner[p].pc = "retrieved"
    /\ cited \subseteq {r.key : r \in RowsIn(runner[p].hits)}
    /\ runner' = [runner EXCEPT ![p] =
          [pc |-> "answered",
           doc |-> [kind |-> "candidates", contract |-> @.contract, cited |-> cited,
                    pack |-> RowsIn(@.hits)],
           readings |-> @.readings]]
    /\ UNCHANGED <<store, files>>

\* The file is written over.
WriteStream(p) ==
    /\ runner[p].pc = "answered"
    /\ stream' = runner[p].doc
    /\ answered' = answered \cup {[doc |-> runner[p].doc, readings |-> runner[p].readings]}
    /\ runner' = [runner EXCEPT ![p] = Waits]
    /\ UNCHANGED <<store, records, retained>>

\* A run that ends early may have emptied the file.
Fail(p) ==
    /\ runner[p] # Waits
    /\ stream' \in IF runner[p].pc = "answered" THEN {stream, Empty} ELSE {stream}
    /\ runner' = [runner EXCEPT ![p] = Waits]
    /\ UNCHANGED <<store, answered, records, retained>>

\* What somebody can have at hand: what they write, or a copy of what a run wrote.
AtHand == Handmade \cup {a.doc : a \in answered}

\* The stream is a file: it may be edited, or replaced by an older one.
RewriteStream(doc) ==
    /\ doc \in AtHand
    /\ stream' = doc
    /\ UNCHANGED <<store, runner, answered, records, retained>>

-----------------------------------------------------------------------------
(* Decision and retention.                                                 *)

\* normalize_human_signer
IsHuman(name) == name \notin Systems

\* A stream that can be decided on has its two documents, still a draft.
Reviewable(doc) == doc.kind = "candidates"

\* `decide` reads the file again; the record has the digests of what is there.
Decide(decision, by) ==
    /\ Cardinality(records) < MaxRecords
    /\ Reviewable(stream)
    /\ decision \in Decided
    /\ IsHuman(by)
    /\ records' = records \cup {[decision |-> decision, by |-> by, digests |-> stream]}
    /\ UNCHANGED <<store, runner, stream, answered, retained>>

\* So is a decision record: anybody may write one, with any decision, in any name, and
\* with the digests of any stream, or without what the gate always gives (Unset).
Craft(decision, by, doc) ==
    /\ Cardinality(records) < MaxRecords
    /\ decision \in Decided
    /\ doc \in AtHand \cup {Unset}
    /\ records' = records \cup {[decision |-> decision, by |-> by, digests |-> doc]}
    /\ UNCHANGED <<store, runner, stream, answered, retained>>

\* Seeded fault: any record with the shape of one will do.
ShapedLikeOne(record) == TRUE

\* _require_gate_decision_record: the shape of the gate's records, not their origin.
GateProduced(record) == record.digests # Unset /\ IsHuman(record.by)

\* propose_register_candidate
Register(record, authorizer) ==
    /\ record \in records
    /\ GateProduced(record)
    /\ record.decision = "approve"
    /\ IsHuman(authorizer)
    /\ retained' = retained \cup {[because |-> record, by |-> authorizer]}
    /\ UNCHANGED <<store, runner, stream, answered, records>>

LoopInit ==
    /\ chunks = {} /\ ingestion = 0
    /\ runner = [p \in Runners |-> Waits]
    /\ stream = Empty /\ answered = {}
    /\ records = {} /\ retained = {}

LoopNext ==
    \/ \E k \in Contracts : IngestDossier(k) \/ \E s \in Perimeter[k] : IntakeDocument(k, s)
    \/ \E p \in Runners, k \in Contracts, sends \in BOOLEAN : Ask(p, k, sends)
    \/ \E p \in Runners : Semantic(p) \/ Lexical(p) \/ WriteStream(p) \/ Fail(p)
    \/ \E p \in Runners, cited \in SUBSET UNION {KeysOf(s) : s \in DOMAIN Chunks} :
          Draft(p, cited)
    \/ \E decision \in Decided, by \in Humans \cup Systems :
          Decide(decision, by) \/ \E doc \in AtHand \cup {Unset} : Craft(decision, by, doc)
    \/ \E doc \in AtHand : RewriteStream(doc)
    \/ \E record \in records, by \in Humans \cup Systems : Register(record, by)

LoopSpec == LoopInit /\ [][LoopNext]_loopVars

-----------------------------------------------------------------------------
(* Properties.                                                             *)

\* Chunks of one source are of one ingestion, but for a source that was ingested again
\* between the two readings: then of the last before the first and of a later one.
ReadTwice(pack, readings) ==
    \A r, s \in pack :
       r.key[1] = s.key[1] /\ r.ingestion < s.ingestion =>
          /\ r.ingestion <= readings[1] /\ readings[1] < s.ingestion
          /\ s.ingestion <= readings[2]

\* What a run wrote cites its evidence, which is in the perimeter of its contract.
AnswerIsGrounded(answer) ==
    LET doc == answer.doc IN
    /\ doc.pack # {}
    /\ \A row \in doc.pack : row.key[1] \in Perimeter[doc.contract]
    /\ doc.cited \subseteq {row.key : row \in doc.pack}
    /\ ReadTwice(doc.pack, answer.readings)

\* What is retained carries an approval and an authorization in the names of humans and
\* is bound to one content; and if that is what a run wrote, then it is grounded,
\* whoever made the record, and whatever was ingested, overwritten or put back
\* meanwhile.  Of a content that no run wrote nothing is promised
\* (the chain run, decide, register).
RetentionIsGrounded ==
    \A r \in retained :
       /\ r.because.decision = "approve"
       /\ {r.because.by, r.by} \subseteq Humans
       /\ r.because.digests # Unset
       /\ \A a \in answered :
             a.doc = r.because.digests /\ a.doc.kind = "candidates" => AnswerIsGrounded(a)

Ahead(ranking, a, b) ==
    /\ RankIn(ranking, a) # 0
    /\ RankIn(ranking, b) = 0 \/ RankIn(ranking, a) < RankIn(ranking, b)

\* One of the rankings puts a before b, and none puts b before a.
Dominates(semantic, lexical, a, b) ==
    /\ Ahead(semantic, a, b) \/ Ahead(lexical, a, b)
    /\ ~Ahead(semantic, b, a) /\ ~Ahead(lexical, b, a)

\* No chunk comes twice, and one that dominates another comes before it.
FairlyFused(semantic, lexical, fused) ==
    /\ \A a, b \in fused : a.row.key = b.row.key => a = b
    /\ \A key \in KeysIn(semantic) \cup KeysIn(lexical), b \in fused :
          Dominates(semantic, lexical, key, b.row.key) =>
             \E a \in fused : a.row.key = key /\ Before(a, b)

\* The fusion is fair: a chunk that no ranking puts after another, and one puts
\* before it, comes first; no chunk comes twice, and none is left out for one that
\* comes after it (reciprocal_rank_fusion).
FusionIsFair ==
    \A p \in Runners : runner[p].pc = "retrieved" =>
       LET rankings == runner[p].rankings
       IN  FairlyFused(rankings[1], rankings[2], rankings[3])

\* The evidence that a run gives is of one ingestion of each source ("what is
\* retrievable is always provably from one run").
PackIsOfOneRun ==
    \A a \in answered : a.doc.kind = "candidates" =>
       \A r, s \in a.doc.pack : r.key[1] = s.key[1] => r.ingestion = s.ingestion

=============================================================================
