----------------------------- MODULE ModelCalls -----------------------------
(***************************************************************************)
(* The calls to a language model, and the extraction of triples that makes *)
(* most of them.                                                           *)
(*                                                                         *)
(* One client serves every thread of the process.  A semaphore bounds the   *)
(* requests on the wire; a request that fails for a reason that may pass   *)
(* is sent again after a delay, slept without a permit.  An extraction      *)
(* walks the sections of a document in batches: a batch whose call fails   *)
(* is noted and passed over, and once the tokens the answers report reach  *)
(* a budget the rest of the document is.  What a model answers is kept     *)
(* only if it cites references of the section it speaks of.                *)
(*                                                                         *)
(* Numbers: one unit of back-off is KW's retry_backoff_seconds.  Left out: *)
(* prompts, and what a triple says.                                        *)
(***************************************************************************)
EXTENDS Integers, FiniteSets, Sequences, FiniteSetsExt

CONSTANTS
    Sections,       \* the sections of the document, in order: a sequence of sets of references
    BatchSizes,     \* max_sections_per_call
    TokenBudget,    \* max_input_tokens_per_document
    AnswerCosts,    \* the tokens an answer may report
    MaxRetries,     \* of one request
    MaxConcurrent,  \* permits of the client
    BackoffCap      \* the longest delay slept

ASSUME ModelCallsAssumption ==
    /\ TokenBudget \in Nat \ {0} /\ MaxRetries \in Nat /\ BackoffCap \in Nat
    /\ MaxConcurrent \in Nat \ {0} /\ AnswerCosts \subseteq Nat /\ IsFiniteSet(AnswerCosts)
    /\ BatchSizes \subseteq Nat \ {0}
    /\ Len(Sections) \in Nat /\ DOMAIN Sections = 1..Len(Sections)

VARIABLES
    provider,   \* the client that was configured, and the size of a batch
    permits,    \* of the client's semaphore
    calls,      \* the request of each thread
    mining,     \* the extraction of triples from one document
    assets      \* what the generated semantic document says, by the sections it cites

modelVars == <<provider, permits, calls, mining, assets>>

-----------------------------------------------------------------------------
ModelCallers == {"extraction", "chat"}
CallStages == {"none", "waiting", "flight", "sleeping"}
NoCall == [stage |-> "none", attempt |-> 0, delay |-> 0]

SectionNumbers == DOMAIN Sections
CitedRefs == UNION {Sections[s] : s \in SectionNumbers}
Triple == [section : SectionNumbers, refs : SUBSET CitedRefs]

(* The clients that may be configured: one waits for as long as the server  *)
(* asks it to.                                                             *)
AnthropicClient == [name |-> "anthropic", waitsAsAsked |-> TRUE]
GeminiClient    == [name |-> "gemini", waitsAsAsked |-> FALSE]
ModelClients == {AnthropicClient, GeminiClient}

(* What a request may fail with. *)
Failures == {"busy", "busy_until", "connection", "refused"}

ModelTypeOK ==
    /\ provider \in [client : ModelClients, batch : BatchSizes]
    /\ permits \in 0..MaxConcurrent
    /\ calls \in [ModelCallers -> [stage : CallStages, attempt : 0..MaxRetries, delay : 0..BackoffCap]]
    /\ mining.stage \in {"idle", "batches", "done"}
    /\ mining.used \in 0..(Len(Sections) * Max(AnswerCosts \cup {0}))
    /\ mining.tripped \in BOOLEAN
    /\ mining.todo \subseteq SectionNumbers /\ mining.triples \subseteq Triple
    /\ assets \subseteq SUBSET SectionNumbers
    /\ mining.warned \subseteq SectionNumbers /\ mining.answered \subseteq SectionNumbers

NotMining == [stage |-> "idle", todo |-> {}, used |-> 0, tripped |-> FALSE,
              triples |-> {}, warned |-> {}, answered |-> {}]

-----------------------------------------------------------------------------
(* The client.                                                             *)

(* _is_retryable, _is_retryable_gemini: too many requests, a fault of the   *)
(* server, no connection.                                                  *)
IsRetryable(failure) == failure # "refused"

AtMostCap(delay) == IF delay > BackoffCap THEN BackoffCap ELSE delay

(* _retry_delay: the delay the server asked for, which may be anything;     *)
(* else twice as long each time, and up to one unit more.                  *)
RetryDelays(failure, attempt) ==
    IF failure = "busy_until" /\ provider.client.waitsAsAsked
    THEN {AtMostCap(IF asked < 0 THEN 0 ELSE asked) : asked \in {-1, 1, BackoffCap + 1}}
    ELSE {AtMostCap(2^attempt + jitter) : jitter \in {0, 1}}

Call(c, to) == calls' = [calls EXCEPT ![c] = to]

SendRequest(c) ==
    /\ calls[c].stage = "waiting"
    /\ permits > 0
    /\ permits' = permits - 1
    /\ Call(c, [calls[c] EXCEPT !.stage = "flight"])
    /\ UNCHANGED <<provider, mining, assets>>

(* The permit is back before the delay is slept. *)
BackOff(c) ==
    /\ calls[c].stage = "flight"
    /\ calls[c].attempt < MaxRetries
    /\ \E failure \in Failures :
          /\ IsRetryable(failure)
          /\ \E d \in RetryDelays(failure, calls[c].attempt) :
                Call(c, [calls[c] EXCEPT !.stage = "sleeping", !.delay = d])
    /\ permits' = permits + 1
    /\ UNCHANGED <<provider, mining, assets>>

WakeUp(c) ==
    /\ calls[c].stage = "sleeping"
    /\ Call(c, [stage |-> "waiting", attempt |-> calls[c].attempt + 1, delay |-> 0])
    /\ UNCHANGED <<provider, permits, mining, assets>>

Returns(c) ==
    /\ calls[c].stage = "flight"
    /\ permits' = permits + 1
    /\ Call(c, NoCall)
    /\ UNCHANGED <<provider, assets>>

(* A chat asks for text, and is answered or told of the failure: one that   *)
(* is not retried, or the last attempt's.                                  *)
AskText ==
    /\ calls["chat"].stage = "none"
    /\ Call("chat", [NoCall EXCEPT !.stage = "waiting"])
    /\ UNCHANGED <<provider, permits, mining, assets>>

TextReturns == Returns("chat") /\ UNCHANGED mining

-----------------------------------------------------------------------------
(* EntityExtractor.                                                        *)

(* Sections without references are passed over, with a warning. *)
ExtractTriples ==
    /\ mining.stage # "batches"
    /\ mining' = [NotMining EXCEPT
          !.stage = "batches",
          !.todo = {s \in SectionNumbers : Sections[s] # {}},
          !.warned = {s \in SectionNumbers : Sections[s] = {}}]
    /\ UNCHANGED <<provider, permits, calls, assets>>

(* _chunked: the first few of the sections that are left, in order. *)
NextBatch ==
    {s \in mining.todo : Cardinality({t \in mining.todo : t < s}) < provider.batch}

Mining == mining.stage = "batches" /\ calls["extraction"].stage = "none" /\ mining.todo # {}

OverBudget == mining.tripped \/ mining.used >= TokenBudget

SkipBatch ==
    /\ Mining /\ OverBudget
    /\ mining' = [mining EXCEPT !.tripped = TRUE, !.todo = @ \ NextBatch,
                                !.warned = @ \cup NextBatch]
    /\ UNCHANGED <<provider, permits, calls, assets>>

AskBatch ==
    /\ Mining /\ ~OverBudget
    /\ Call("extraction", [NoCall EXCEPT !.stage = "waiting"])
    /\ UNCHANGED <<provider, permits, mining, assets>>

(* What a model may put in its answer: a section it was asked about or     *)
(* another one, and any references.  A call for one section does not read  *)
(* the section from the answer.                                            *)
Said(batch) ==
    IF provider.batch = 1 THEN [section : batch, refs : SUBSET CitedRefs] ELSE Triple

(* Faulty variant: references of any section of the batch will do. *)
IsGroundedInBatch(t, batch) ==
    /\ t.section \in batch
    /\ t.refs # {}
    /\ t.refs \subseteq UNION {Sections[s] : s \in batch}

IsGrounded(t, batch) ==
    /\ t.section \in batch
    /\ t.refs # {}
    /\ t.refs \subseteq Sections[t.section]

(* The tokens are those the answer reports; what is not grounded is         *)
(* dropped, with a warning that names the section if the batch has it.     *)
BatchAnswered ==
    /\ Returns("extraction")
    /\ \E t \in Said(NextBatch), cost \in AnswerCosts :
          mining' = [mining EXCEPT
             !.todo = @ \ NextBatch, !.used = @ + cost,
             !.answered = @ \cup NextBatch,
             !.triples = IF IsGrounded(t, NextBatch) THEN @ \cup {t} ELSE @,
             !.warned = IF ~IsGrounded(t, NextBatch) /\ t.section \in NextBatch
                        THEN @ \cup {t.section} ELSE @]

(* An answer without the tool's structure is an error too, and not asked   *)
(* for again.  No tokens are counted for a call that failed.               *)
BatchFails ==
    /\ Returns("extraction")
    /\ mining' = [mining EXCEPT !.todo = @ \ NextBatch,
                                !.warned = @ \cup NextBatch]

ExtractionEnds ==
    /\ mining.stage = "batches" /\ mining.todo = {}
    /\ mining' = [mining EXCEPT !.stage = "done"]
    /\ UNCHANGED <<provider, permits, calls, assets>>

(* A generator asks once for a profile and assets, through a client of its  *)
(* own.  An asset keeps those of its citations that are sections of the    *)
(* document, and goes if none is.  A failure is the caller's, and stores    *)
(* nothing.                                                                *)
GenerateAssets ==
    /\ mining.stage = "idle"
    /\ \E cited \in SUBSET (SectionNumbers \cup {Len(Sections) + 1}) :
          assets' = {cited \cap SectionNumbers} \ {{}}
    /\ UNCHANGED <<provider, permits, calls, mining>>

ModelRestart ==
    /\ mining.stage = "batches"
    /\ UNCHANGED <<provider, assets>>
    /\ permits' = MaxConcurrent
    /\ calls' = [c \in ModelCallers |-> NoCall]
    /\ mining' = NotMining

ModelInit ==
    /\ provider \in [client : ModelClients, batch : BatchSizes]
    /\ permits = MaxConcurrent
    /\ calls = [c \in ModelCallers |-> NoCall]
    /\ mining = NotMining
    /\ assets = {}

ModelNext ==
    \/ AskText \/ TextReturns
    \/ \E c \in ModelCallers : SendRequest(c) \/ BackOff(c) \/ WakeUp(c)
    \/ ExtractTriples \/ SkipBatch \/ AskBatch \/ BatchAnswered \/ BatchFails \/ ExtractionEnds
    \/ GenerateAssets \/ ModelRestart

ModelSpec == ModelInit /\ [][ModelNext]_modelVars

-----------------------------------------------------------------------------
(* Properties.                                                             *)

(* Whatever the model answers, a triple that is kept cites references, and *)
(* only those of the section it is attributed to.  Every section of a       *)
(* finished extraction was answered for or is warned of: none is lost      *)
(* between batches, failures and the budget.  An extraction goes over its   *)
(* budget by less than one answer.                                         *)
ExtractionIsGrounded ==
    /\ \A t \in mining.triples :
          t.refs # {} /\ t.refs \subseteq Sections[t.section] /\ t.section \in mining.answered
    /\ mining.stage = "done" => mining.answered \cup mining.warned = SectionNumbers
    /\ mining.used < TokenBudget + Max(AnswerCosts \cup {0})

(* A permit is out exactly while a request is on the wire, whatever failed  *)
(* and however long is slept: the threads that back off never starve the   *)
(* others of the client.                                                   *)
PermitsComeBack ==
    permits + Cardinality({c \in ModelCallers : calls[c].stage = "flight"}) = MaxConcurrent

(* The two together: what is kept of the model's answers, and what is held  *)
(* while it is asked, through failures, retries and restarts.              *)
ModelIsUsedWell == ExtractionIsGrounded /\ PermitsComeBack

=============================================================================
