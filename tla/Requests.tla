------------------------------ MODULE Requests ------------------------------
(***************************************************************************)
(* The board's accepted-request cache (internal/board: executeCommand in   *)
(* store.go, anonkey.go, anonretry.go, signedretry.go): which command is   *)
(* executed, which is answered with an earlier receipt, which is refused.  *)
(* A command is one transaction: what it does, and the row that remembers  *)
(* its request id, are written together.                                   *)
(*                                                                         *)
(* One key signs, or (an anonymous caller) the network stands for it under *)
(* a salt of the day that only the process knows (ANON_PREFIX).  What a    *)
(* command is beyond a post or a rotation, and every other reason to       *)
(* refuse it (levers, sanctions, quotas), is left open: any command may    *)
(* meet Refuse.                                                            *)
(***************************************************************************)
EXTENDS Integers, Sequences

CONSTANTS Networks,
          Private,        \* bodies of posts that are not plainly public
          Fresh,          \* SignatureWindowSeconds
          SignedRetry,    \* SignedRetrySeconds
          CrossNetwork,   \* AnonCrossNetworkRetrySeconds
          Day, Grace      \* 86400 and AnonSaltGraceSeconds

ASSUME RequestsAssumption ==
    /\ {Fresh, SignedRetry, CrossNetwork, Grace} \subseteq Nat
    /\ Day \in Nat \ {0} /\ Grace <= Day

VARIABLES now,
          events,     \* what was executed, in order
          requests,   \* rows of the requests table
          successor,  \* the key was rotated
          salts       \* anonSalts, 0 for none; made, boot: how many salts and
                      \* restarts there were

server == <<now, events, requests, successor, salts>>

ServerInit == /\ now = 0
              /\ events = <<>>
              /\ requests = {}
              /\ successor = FALSE
              /\ salts = [day |-> 0, cur |-> 0, prev |-> 0, made |-> 0, boot |-> 0]

\* A command is [id, op, body, stamp, signed]: the canonical bytes are all of
\* it (the nonce is as new as the stamp), so equal commands have one digest.

-----------------------------------------------------------------------------
(* The salts of anonymous callers.                                         *)

today == now \div Day
inGrace == now % Day < Grace

expireLocked(s) ==
    [s EXCEPT !.prev = IF inGrace /\ s.day = today THEN @ ELSE 0,
              !.cur = IF s.day = today \/ (s.day = today - 1 /\ inGrace) THEN @ ELSE 0]

\* Today's salt, made when there is none; yesterday's survives until Grace.
anonSalt ==
    LET s == expireLocked(salts)
    IN  IF s.cur # 0 /\ s.day = today THEN s
        ELSE [s EXCEPT !.day = today, !.cur = s.made + 1, !.made = @ + 1,
                       !.prev = IF s.day = today - 1 THEN s.cur ELSE 0]

\* previousAnonymousAccount, of the salts s a command has just looked at.
previousSalt(s) == IF inGrace /\ s.day = today THEN s.prev ELSE 0

\* requestNamespace: the account of the key, or the network's pseudonym.
Account == <<0, "account">>
Namespaces(signed, s, source) ==
    IF signed THEN <<Account>>
    ELSE <<  <<s.cur, source>> >> \o
         (IF previousSalt(s) = 0 THEN <<>> ELSE << <<previousSalt(s), source>> >>)

-----------------------------------------------------------------------------
(* The lookups.                                                            *)

Public(c) == c.op = "post" /\ c.body \notin Private

\* Mutant: yesterday's pseudonym is not asked.
FoundToday(c, spaces) == {r \in requests : r.ns = spaces[1] /\ r.command.id = c.id}

\* The row of this request id, in the first namespace that has one.
Found(c, spaces) ==
    LET rows(ns) == {r \in requests : r.ns = ns /\ r.command.id = c.id}
        hits == {k \in 1..Len(spaces) : rows(spaces[k]) # {}}
    IN  IF hits = {} THEN {} ELSE rows(spaces[CHOOSE k \in hits : \A j \in hits : k <= j])

\* anonymousCrossNetworkRetry: the oldest identical public post of another
\* pseudonym within the window.
CrossNetworkRetry(c, ns) ==
    IF c.signed \/ ~Public(c) THEN {}
    ELSE LET rows == {r \in requests : /\ r.command = c /\ r.ns # ns
                                       /\ r.at >= now - CrossNetwork}
         IN  {r \in rows : \A q \in rows : r.receipt <= q.receipt}

\* signedPostRetry: the key's newest identical public post within the window,
\* whatever its request id.
signedPostRetry(c) ==
    IF ~c.signed \/ ~Public(c) THEN {}
    ELSE LET same == {k \in 1..Len(events) :
                        /\ events[k].command.signed /\ events[k].command.op = "post"
                        /\ events[k].command.body = c.body
                        /\ events[k].at >= now - SignedRetry}
         IN  {k \in same : \A j \in same : j <= k}

Stale(c) == c.stamp < now - Fresh \/ c.stamp > now + Fresh

-----------------------------------------------------------------------------
(* The command.  It is answered with a receipt, which is a position in     *)
(* events, or with 0: a refusal that no retry changes by itself.           *)

NewReceipt == Len(events) + 1
Receipt(found) == (CHOOSE r \in found : TRUE).receipt

\* What a command meets that was not seen before.
Admission(c) ==
    IF c.signed /\ (Stale(c) \/ successor) THEN 0
    ELSE IF signedPostRetry(c) # {} THEN CHOOSE k \in signedPostRetry(c) : TRUE
    ELSE NewReceipt

\* The salts once the command has asked for its namespace.
Salted(c) == IF c.signed THEN salts ELSE anonSalt

\* The row that answers it: its own, or another network's.
Earlier(c, source) ==
    LET spaces == Namespaces(c.signed, Salted(c), source)
    IN  IF Found(c, spaces) # {} THEN Found(c, spaces) ELSE CrossNetworkRetry(c, spaces[1])

\* Mutant: a post that says the same is looked for first.
AnswerRetriedFirst(c, source) ==
    LET rows == Earlier(c, source)
    IN  IF signedPostRetry(c) # {} THEN CHOOSE k \in signedPostRetry(c) : TRUE
        ELSE IF \E r \in rows : r.command # c THEN 0
        ELSE IF rows # {} THEN Receipt(rows) ELSE Admission(c)

\* An id that belongs to another command is refused.
Answer(c, source) ==
    LET rows == Earlier(c, source)
    IN  IF \E r \in rows : r.command # c THEN 0
        ELSE IF rows # {} THEN Receipt(rows) ELSE Admission(c)

executeCommand(c, source) ==
    /\ now' = now
    /\ salts' = Salted(c)
    /\ IF Answer(c, source) = NewReceipt
       THEN LET ns == Namespaces(c.signed, salts', source)[1]
            IN  /\ events' = Append(events, [command |-> c, at |-> now, ns |-> ns,
                                             boot |-> salts.boot])
                /\ requests' = requests \cup {[ns |-> ns, command |-> c, at |-> now,
                                                receipt |-> NewReceipt]}
                /\ successor' = (successor \/ c.op = "rotate")
       ELSE UNCHANGED <<events, requests, successor>>

\* Whatever else refuses a command, before or after the lookups.
Refuse(c) == /\ salts' \in IF c.signed THEN {salts} ELSE {salts, anonSalt}
             /\ UNCHANGED <<now, events, requests, successor>>

\* The daily timer.
expireSalt == /\ salts' = expireLocked(salts)
              /\ UNCHANGED <<now, events, requests, successor>>

\* A restart of the server: the tables stay, the salts do not.
Restart == /\ salts' = [salts EXCEPT !.day = 0, !.cur = 0, !.prev = 0, !.boot = @ + 1]
           /\ UNCHANGED <<now, events, requests, successor>>
=============================================================================
