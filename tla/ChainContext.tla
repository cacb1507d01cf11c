---------------------------- MODULE ChainContext ----------------------------
(***************************************************************************)
(* signAndBroadcast() of src/wallet/chain-context.ts, with the gas         *)
(* estimation, the broadcast and the retry interceptor it runs through,    *)
(* against the account sequences of a node.  Each call is an asynchronous  *)
(* function; the calls of an application share the fields of their context *)
(* and may interleave at every await.                                      *)
(***************************************************************************)
EXTENDS Naturals

CONSTANTS
    Calls,         \* the signAndBroadcast() calls the application makes
    Contexts,
    Signers,
    Keys,          \* signers that are a Key; the others are external
    NoSigner,
    Settings       \* the ways an application may use its contexts, and what may happen

(***************************************************************************)
(* contextOf, signerOf  of each call; its signer is the context's or an    *)
(*             override                                                    *)
(* defaultOf   the signer of each context                                  *)
(* givesFee    calls that pass options.fee                                 *)
(* overlap     a call may start before the last one has settled            *)
(* resets      the application may call resetSequence() at any time        *)
(* persistent  after a mismatch it resets and tries again                  *)
(* retries     the transport has a retry interceptor                       *)
(* lossy       requests and responses may be lost, signers may refuse      *)
(* evictions   bounds how often the node empties its mempool               *)
(***************************************************************************)
Setting == [contextOf : [Calls -> Contexts], signerOf : [Calls -> Signers],
            defaultOf : [Contexts -> Signers], givesFee : SUBSET Calls,
            overlap : BOOLEAN, resets : BOOLEAN, persistent : BOOLEAN,
            retries : BOOLEAN, lossy : BOOLEAN, evictions : Nat]

ASSUME ChainContextAssumption ==
    /\ Keys \subseteq Signers
    /\ NoSigner \notin Signers
    /\ Settings \subseteq Setting

VARIABLES
    setting,      \* never changes
    \* Fields of each context.
    address,      \* _address
    nextSequence, \* _nextSequence; 0 stands for undefined, max() cannot tell them
    \* The calls.
    pc, account, reply, sequence, verdict,
    \* The node.
    expected,     \* the sequence its mempool expects of each account
    committed,    \* the sequence of each account in the last block
    accepted,     \* calls whose transaction has entered the mempool
    evicted       \* how often it has emptied the mempool

contextVars == <<setting, address, nextSequence>>
callVars == <<pc, account, reply, sequence, verdict>>
nodeVars == <<expected, committed, accepted, evicted>>
vars == <<contextVars, callVars, nodeVars>>

ContextOf == setting.contextOf
SignerOf == setting.signerOf
DefaultOf == setting.defaultOf

(***************************************************************************)
(* naming     awaits getAddress() of an external signer                    *)
(* estimating, simulating   awaits the account and the simulation of       *)
(*            estimateGas()                                                *)
(* creating, created        awaits the account of createTx(); it came      *)
(* signing    awaits the signer                                            *)
(* sending, answering       the broadcast, its answer is under way         *)
(***************************************************************************)
Running == {"naming", "estimating", "simulating", "creating", "created", "signing",
            "sending", "answering"}
Verdicts == {"none", "ok", "mismatch", "unauthorized", "lost"}

TypeOK ==
    /\ setting \in Settings
    /\ address \in [Contexts -> Signers \cup {NoSigner}]
    /\ nextSequence \in [Contexts -> Nat]
    /\ pc \in [Calls -> Running \cup {"idle", "done", "failed"}]
    /\ account \in [Calls -> Signers \cup {NoSigner}]
    /\ reply \in [Calls -> Nat]
    /\ sequence \in [Calls -> Nat]
    /\ verdict \in [Calls -> Verdicts]
    /\ expected \in [Signers -> Nat]
    /\ committed \in [Signers -> Nat]
    /\ accepted \subseteq Calls
    /\ evicted \in Nat
    /\ \A c \in Calls : pc[c] \notin {"idle", "naming"} => account[c] \in Signers

Init ==
    /\ setting \in Settings
    /\ address = [x \in Contexts |->
                    IF DefaultOf[x] \in Keys THEN DefaultOf[x] ELSE NoSigner]
    /\ nextSequence = [x \in Contexts |-> 0]
    /\ pc = [c \in Calls |-> "idle"]
    /\ account = [c \in Calls |-> NoSigner]
    /\ reply = [c \in Calls |-> 0] /\ sequence = [c \in Calls |-> 0]
    /\ verdict = [c \in Calls |-> "none"]
    /\ expected = [s \in Signers |-> 0] /\ committed = [s \in Signers |-> 0]
    /\ accepted = {} /\ evicted = 0

-----------------------------------------------------------------------------
\* getSignerAddress(), once _address is set; the address stands for its account.
AddressOf(c) ==
    IF SignerOf[c] \in Keys THEN SignerOf[c] ELSE address[ContextOf[c]]

NeverNeedsName(c) == FALSE
\* `!this._address` for an external signer
NeedsName(c) == SignerOf[c] \notin Keys /\ address[ContextOf[c]] = NoSigner

FirstQuery(c) == IF c \in setting.givesFee THEN "creating" ELSE "estimating"

CommittedSequence(c) == reply[c]
\* The higher of the chain's and the locally tracked sequence.
UsableSequence(c) ==
    IF nextSequence[ContextOf[c]] > reply[c] THEN nextSequence[ContextOf[c]] ELSE reply[c]

AdvanceTwice(c) ==
    nextSequence' = [nextSequence EXCEPT ![ContextOf[c]] = sequence[c] + 2]
\* The line after `await broadcast(...)`.
Advance(c) ==
    nextSequence' = [nextSequence EXCEPT ![ContextOf[c]] = sequence[c] + 1]

KeepSequence(x) == UNCHANGED nextSequence
\* resetSequence()
ResetSequence(x) == nextSequence' = [nextSequence EXCEPT ![x] = 0]

\* The node checks the account number and the sequence of the signature.
Check(c) ==
    IF account[c] # SignerOf[c] THEN "unauthorized"
    ELSE IF sequence[c] # expected[SignerOf[c]] THEN "mismatch"
    ELSE "ok"

-----------------------------------------------------------------------------
Begin(c) ==
    /\ pc[c] = "idle"
    /\ setting.overlap \/ \A d \in Calls : pc[d] \notin Running
    /\ \/ /\ NeedsName(c)
          /\ pc' = [pc EXCEPT ![c] = "naming"]
          /\ UNCHANGED account
       \/ /\ ~NeedsName(c)
          /\ pc' = [pc EXCEPT ![c] = FirstQuery(c)]
          /\ account' = [account EXCEPT ![c] = AddressOf(c)]
    /\ UNCHANGED <<contextVars, reply, sequence, verdict, nodeVars>>

\* `this._address = await signer.getAddress(prefix)`, whoever the signer is
Named(c) ==
    /\ pc[c] = "naming"
    /\ address' = [address EXCEPT ![ContextOf[c]] = SignerOf[c]]
    /\ account' = [account EXCEPT ![c] = SignerOf[c]]
    /\ pc' = [pc EXCEPT ![c] = FirstQuery(c)]
    /\ UNCHANGED <<setting, nextSequence, reply, sequence, verdict, nodeVars>>

\* estimateGas() sends the committed sequence to the simulation.
EstimateAnswered(c) ==
    /\ pc[c] = "estimating"
    /\ reply' = [reply EXCEPT ![c] = committed[account[c]]]
    /\ pc' = [pc EXCEPT ![c] = "simulating"]
    /\ UNCHANGED <<contextVars, account, sequence, verdict, nodeVars>>

\* The simulation runs on the state of the mempool.
SimulationAnswered(c) ==
    /\ pc[c] = "simulating"
    /\ \/ /\ reply[c] = expected[SignerOf[c]]
          /\ pc' = [pc EXCEPT ![c] = "creating"]
          /\ account' = [account EXCEPT ![c] = AddressOf(c)]
          /\ UNCHANGED verdict
       \/ /\ reply[c] # expected[SignerOf[c]]
          /\ pc' = [pc EXCEPT ![c] = "failed"]
          /\ verdict' = [verdict EXCEPT ![c] = "mismatch"]
          /\ UNCHANGED account
    /\ UNCHANGED <<contextVars, reply, sequence, nodeVars>>

AccountAnswered(c) ==
    /\ pc[c] = "creating"
    /\ reply' = [reply EXCEPT ![c] = committed[account[c]]]
    /\ pc' = [pc EXCEPT ![c] = "created"]
    /\ UNCHANGED <<contextVars, account, sequence, verdict, nodeVars>>

\* The continuation of createTx(): _nextSequence is read here, and used when the
\* transaction reaches the node.
CreateTx(c) ==
    /\ pc[c] = "created"
    /\ sequence' = [sequence EXCEPT ![c] = UsableSequence(c)]
    /\ pc' = [pc EXCEPT ![c] = "signing"]
    /\ UNCHANGED <<contextVars, account, reply, verdict, nodeVars>>

Sign(c) ==
    /\ pc[c] = "signing"
    /\ \/ pc' = [pc EXCEPT ![c] = "sending"] /\ UNCHANGED verdict
       \/ /\ setting.lossy
          /\ pc' = [pc EXCEPT ![c] = "failed"]
          /\ verdict' = [verdict EXCEPT ![c] = "lost"]
    /\ UNCHANGED <<contextVars, account, reply, sequence, nodeVars>>

\* broadcastTx in sync mode: the node's answer is the result of its check.
NodeChecks(c) ==
    /\ pc[c] = "sending"
    /\ pc' = [pc EXCEPT ![c] = "answering"]
    /\ verdict' = [verdict EXCEPT ![c] = Check(c)]
    /\ \/ /\ Check(c) = "ok"
          /\ expected' = [expected EXCEPT ![SignerOf[c]] = @ + 1]
          /\ accepted' = accepted \cup {c}
       \/ Check(c) # "ok" /\ UNCHANGED <<expected, accepted>>
    /\ UNCHANGED <<contextVars, account, reply, sequence, committed, evicted>>

Answered(c) ==
    /\ pc[c] = "answering"
    /\ \/ /\ verdict[c] = "ok"
          /\ Advance(c)
          /\ pc' = [pc EXCEPT ![c] = "done"]
       \/ /\ verdict[c] # "ok"
          /\ pc' = [pc EXCEPT ![c] = "failed"]
          /\ UNCHANGED nextSequence
    /\ UNCHANGED <<setting, address, account, reply, sequence, verdict, nodeVars>>

\* The interceptor sends the request again after an Unavailable instead of the answer.
Resend(c) ==
    /\ setting.retries
    /\ pc[c] = "answering"
    /\ pc' = [pc EXCEPT ![c] = "sending"]
    /\ UNCHANGED <<contextVars, account, reply, sequence, verdict, nodeVars>>

Lose(c) ==
    /\ setting.lossy
    /\ pc[c] \in {"sending", "answering"}
    /\ pc' = [pc EXCEPT ![c] = "failed"]
    /\ verdict' = [verdict EXCEPT ![c] = "lost"]
    /\ UNCHANGED <<contextVars, account, reply, sequence, nodeVars>>

\* "Call ctx.resetSequence() and retry."
TryAgain(c) ==
    /\ setting.persistent
    /\ pc[c] = "failed" /\ verdict[c] = "mismatch"
    /\ ResetSequence(ContextOf[c])
    /\ pc' = [pc EXCEPT ![c] = "idle"]
    /\ verdict' = [verdict EXCEPT ![c] = "none"]
    /\ UNCHANGED <<setting, address, account, reply, sequence, nodeVars>>

Reset(x) ==
    /\ setting.resets
    /\ nextSequence[x] # 0
    /\ ResetSequence(x)
    /\ UNCHANGED <<setting, address, callVars, nodeVars>>

-----------------------------------------------------------------------------
\* The node (external): a block takes what is in the mempool, or the mempool loses it.
Commit ==
    /\ committed # expected
    /\ committed' = expected
    /\ UNCHANGED <<contextVars, callVars, expected, accepted, evicted>>

Evict ==
    /\ evicted < setting.evictions
    /\ committed # expected
    /\ expected' = committed
    /\ evicted' = evicted + 1
    /\ UNCHANGED <<contextVars, callVars, committed, accepted>>

Call(c) ==
    \/ Begin(c) \/ Named(c) \/ EstimateAnswered(c) \/ SimulationAnswered(c)
    \/ AccountAnswered(c) \/ CreateTx(c) \/ Sign(c) \/ NodeChecks(c) \/ Answered(c)
    \/ TryAgain(c)

Next ==
    \/ \E c \in Calls : Call(c) \/ Resend(c) \/ Lose(c)
    \/ \E x \in Contexts : Reset(x)
    \/ Commit \/ Evict

Spec == Init /\ [][Next]_vars

-----------------------------------------------------------------------------
(***************************************************************************)
(* What the sequence tracking of a ChainContext promises, and its fair     *)
(* specification.                                                          *)
(***************************************************************************)
\* No call has an override, and the mempool loses nothing.
OwnSigners ==
    /\ \A c \in Calls : SignerOf[c] = DefaultOf[ContextOf[c]]
    /\ setting.evictions = 0

\* The calls follow one another, pass their fee and fail on nothing but the check of
\* the node, and no two contexts share an account.
Consecutive ==
    /\ OwnSigners
    /\ ~setting.overlap /\ ~setting.lossy /\ ~setting.retries /\ ~setting.resets
    /\ setting.givesFee = Calls
    /\ \A x, y \in Contexts : DefaultOf[x] = DefaultOf[y] => x = y

\* "Prevents sequence mismatch when the node hasn't indexed a recent TX yet": calls
\* that follow one another on their contexts never meet a sequence mismatch, wherever
\* blocks come between them.
NoMismatch == Consecutive => \A c \in Calls : verdict[c] # "mismatch"

\* The tracked sequence never runs ahead of what the node expects, whatever calls
\* interleave, fail or are lost: a mismatch is over at the latest with the next block.
NeverAhead ==
    OwnSigners => \A x \in Contexts : nextSequence[x] <= expected[DefaultOf[x]]

\* A call that ends in a BroadcastError ("If the transaction fails") has put no
\* transaction into the mempool, so the advised retry cannot send it twice.  With the
\* retry interceptor this does not hold (see the README); no run has it.
FailedIsNotAccepted ==
    \A c \in Calls : pc[c] = "failed" /\ verdict[c] = "mismatch" => c \notin accepted

-----------------------------------------------------------------------------
\* Fairness: every request is answered or lost, the signer decides, blocks go on;
\* losing, resending and evicting are not fair.
Fairness == (\A c \in Calls : WF_vars(Call(c))) /\ WF_vars(Commit)

FairSpec == Spec /\ Fairness

\* "Call ctx.resetSequence() and retry": an application that does so gets every
\* transaction accepted, although calls overlap, a block or an emptied mempool comes
\* at any moment, and a late answer advances what a reset has cleared.
RetryGoesThrough ==
    \A c \in Calls :
        (/\ setting.persistent /\ ~setting.lossy /\ ~setting.retries
         /\ setting.givesFee = Calls) ~> pc[c] = "done"

=============================================================================
