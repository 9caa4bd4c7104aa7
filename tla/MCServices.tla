----------------------------- MODULE MCServices ------------------------------
(***************************************************************************)
(* Three services that other parts of freego rely on: the Redis locks, the *)
(* IDs that are also the tokens of the locks, and the encipher service.    *)
(* RedisLock, Snowflake, IdText and Encipher stand side by side: a         *)
(* behaviour is one of one of them with the others at rest, as none reads  *)
(* the state of another.                                                   *)
(***************************************************************************)
EXTENDS RedisLock, Snowflake, IdText, Encipher

VARIABLE part   \* the one that is not at rest

\* The keystore and two of the other files.
MCFiles == <<"keystore", "mysql", "jwt">>

\* Numbers on both sides of the powers of 32 and of 58.
MCNumbers == UNION {{b^k - 1, b^k, b^k + 1, 7 * b^k} : b \in {32, 58}, k \in 0..4}
MCParts == {[time |-> Time(n), node |-> Node(n), step |-> Step(n)] : n \in MCNumbers}

\* At rest: the clocks have come to their bound; a text was read; the
\* service and its client agree and checkServerKey does not run.  Locks are
\* at rest before anybody has asked for one.
ClocksDone ==
    /\ clock = [n \in Nodes |-> MaxClock]
    /\ time = [n \in Nodes |-> MaxClock] /\ step = [n \in Nodes |-> 0]
    /\ at = [n \in Nodes |-> "idle"] /\ left = [n \in Nodes |-> 0]
    /\ ids = <<>> /\ setBacks = MaxSetBacks
TextRead ==
    /\ id = [time |-> Epoch, node |-> 0, step |-> 0]
    /\ text = Base58(0) /\ kind = "base58" /\ result = 0
KeysAgreed ==
    /\ disk = [i \in 1..Len(Files) |-> 1]
    /\ srv = [pc |-> "up", i |-> Len(Files) + 1, ecc |-> 1, cached |-> 1, key |-> 1]
    /\ ec = [keystore |-> 1, shared |-> 1, ready |-> TRUE]
    /\ chk = [pc |-> "off", key |-> 1, reply |-> ""]
    /\ call = Idle /\ kept = [op \in Makers |-> 0]
    /\ crashes = 0 /\ losses = 0

MCInit ==
    /\ part \in {"lock", "ids", "text", "keys"}
    /\ Init
    /\ IF part = "ids" THEN InitNodes ELSE ClocksDone
    /\ IF part = "text" THEN InitText ELSE TextRead
    /\ IF part = "keys" THEN InitEncipher ELSE KeysAgreed

MCNext ==
    /\ \/ part = "lock" /\ Next /\ UNCHANGED <<nodeVars, textVars, encipherVars>>
       \/ part = "ids" /\ NextNodes /\ UNCHANGED <<vars, textVars, encipherVars>>
       \/ part = "text" /\ NextText /\ UNCHANGED <<vars, nodeVars, encipherVars>>
       \/ part = "keys" /\ NextEncipher /\ UNCHANGED <<vars, nodeVars, textVars>>
    /\ UNCHANGED part

\* What is at rest has no step to be fair to.
MCSpec ==
    /\ MCInit /\ [][MCNext]_<<vars, nodeVars, textVars, encipherVars, part>>
    /\ Fairness /\ NodeFairness /\ EncipherFairness
==============================================================================
