------------------------------ MODULE Encipher ------------------------------
(***************************************************************************)
(* The encipher service of node/node_encipher.go and its client, in        *)
(* node/node_encipher_client.go: the files a service creates and loads     *)
(* when it starts, the key agreement that a client repeats when the        *)
(* service has got a new key, and the calls that are encrypted and checked *)
(* with the agreed key, while the service crashes and exchanges are lost.  *)
(*                                                                         *)
(* Every start of the service makes a key pair, defaultEcc, named by the   *)
(* crashes there were before (a start that panics shows its key to         *)
(* nobody).  A client has one key pair, so a shared key is named by the    *)
(* service's; 0 is the empty string.  A result is named by                 *)
(* the key of the keystore it was computed with.  AES here has no          *)
(* authentication: what was encrypted under another key does not decrypt,  *)
(* or decrypts to junk.                                                    *)
(***************************************************************************)
EXTENDS Integers, Sequences

CONSTANTS
  Files,       \* the files of LoadConfig in the order they are created
  MaxCrashes,  \* bound on the crashes of the service
  MaxLosses    \* bound on the HTTP exchanges that are lost

ASSUME FilesAssumption ==
  /\ Files \in Seq({"keystore", "mysql", "mongo", "redis", "rabbitmq", "logger", "jwt"})
  /\ Len(Files) > 0 /\ Files[1] = "keystore"
ASSUME BoundsAssumption == MaxCrashes \in Nat /\ MaxLosses \in Nat

VARIABLES
  disk,     \* disk[i]: Files[i] is 0 absent, -1 empty, or holds content k > 0
  srv,      \* the service: where it is, its defaultEcc, defaultCache and keys
  ec,       \* the client object: keystore, shared, ready
  chk,      \* the goroutine checkServerKey
  call,     \* the caller of one of the client's operations
  kept,     \* the result the caller keeps: the keystore key it was made with, by operation
  crashes, losses

encipherVars == <<disk, srv, ec, chk, call, kept, crashes, losses>>

Empty == -1

\* The operations of the client that are encrypted under the agreed key.
Ops == {"Signature", "SignatureVerify", "TokenSignature", "TokenSignatureVerify", "Config",
        "AesEncrypt", "AesDecrypt", "EccEncrypt", "EccDecrypt", "TokenEncrypt", "TokenDecrypt",
        "TokenCreate", "TokenVerify"}

\* The operation that made what an operation takes back.  EccDecrypt takes
\* what a peer has encrypted for the public key that Config("ecdsa") told.
Maker == [SignatureVerify |-> "Signature", TokenSignatureVerify |-> "TokenSignature",
          AesDecrypt |-> "AesEncrypt", EccDecrypt |-> "Config",
          TokenDecrypt |-> "TokenEncrypt", TokenVerify |-> "TokenCreate"]
Takers == DOMAIN Maker
Makers == {"Signature", "TokenSignature", "Config", "AesEncrypt", "TokenEncrypt", "TokenCreate"}

\* A plain text: none, the one that was sent, or another.
Texts == {"", "in", "junk"}

Idle == [pc |-> "idle", op |-> "Signature", enc |-> 0, plain |-> "", res |-> 0, signed |-> 0]

InitEncipher ==
  /\ disk = [i \in 1..Len(Files) |-> 0]
  /\ srv = [pc |-> "down", i |-> 1, ecc |-> 0, cached |-> 0, key |-> 0]
  /\ ec = [keystore |-> 0, shared |-> 0, ready |-> FALSE]
  /\ chk = [pc |-> "load", key |-> 0, reply |-> ""]
  /\ call = Idle
  /\ kept = [op \in Makers |-> 0]
  /\ crashes = 0 /\ losses = 0

-----------------------------------------------------------------------------
(* The service starts: LoadConfig, then the handlers are served. *)

\* A process of the service: defaultEcc and defaultCache are made anew.
Start ==
  /\ srv.pc = "down"
  /\ srv' = [pc |-> "files", i |-> 1, ecc |-> crashes + 1, cached |-> 0, key |-> 0]
  /\ UNCHANGED <<disk, ec, chk, call, kept, crashes, losses>>

\* os.Create of a file that is not there.
createFile ==
  /\ srv.pc = "files" /\ srv.i <= Len(Files) /\ disk[srv.i] = 0
  /\ disk' = [disk EXCEPT ![srv.i] = Empty]
  /\ srv' = [srv EXCEPT !.pc = "write"]
  /\ UNCHANGED <<ec, chk, call, kept, crashes, losses>>

\* The keys of a new keystore are random: the number of the start names them.
createKeystore == [srv EXCEPT !.key = srv.ecc, !.pc = "files", !.i = @ + 1]

\* Faulty: the new keys are used and not written.
writeFileUnsaved ==
  /\ srv.pc = "write"
  /\ disk' = [disk EXCEPT ![srv.i] = IF srv.i = 1 THEN 0 ELSE srv.ecc]
  /\ srv' = IF srv.i = 1 THEN createKeystore ELSE [srv EXCEPT !.pc = "files", !.i = @ + 1]
  /\ UNCHANGED <<ec, chk, call, kept, crashes, losses>>

writeFile ==
  /\ srv.pc = "write"
  /\ disk' = [disk EXCEPT ![srv.i] = srv.ecc]
  /\ srv' = IF srv.i = 1 THEN createKeystore ELSE [srv EXCEPT !.pc = "files", !.i = @ + 1]
  /\ UNCHANGED <<ec, chk, call, kept, crashes, losses>>

\* A file that is there is left as it is; the keystore is read and parsed, and
\* NewDefaultEncipher panics when that fails.
readKeystore ==
  /\ srv.pc = "files" /\ srv.i <= Len(Files) /\ disk[srv.i] # 0
  /\ srv' = CASE srv.i = 1 /\ disk[1] = Empty -> [srv EXCEPT !.pc = "down"]
              [] srv.i = 1 /\ disk[1] # Empty -> [srv EXCEPT !.key = disk[1], !.i = 2]
              [] OTHER -> [srv EXCEPT !.i = @ + 1]
  /\ UNCHANGED <<disk, ec, chk, call, kept, crashes, losses>>

\* The last part of LoadConfig reads every file but the keystore into
\* defaultConfig, an empty one too (JsonUnmarshal of an empty jwt is no error);
\* then StartNodeEncipher listens.
loadConfig ==
  /\ srv.pc = "files" /\ srv.i > Len(Files)
  /\ srv' = [srv EXCEPT !.pc = "up"]
  /\ UNCHANGED <<disk, ec, chk, call, kept, crashes, losses>>

Crash ==
  /\ srv.pc # "down" /\ crashes < MaxCrashes
  /\ srv' = [srv EXCEPT !.pc = "down"]
  /\ crashes' = crashes + 1
  /\ UNCHANGED <<disk, ec, chk, call, kept, losses>>

-----------------------------------------------------------------------------
(* The goroutine of the client: NewEncipherClient, checkServerKey, Handshake *)

\* An exchange fails when nothing listens, or when it is lost or times out.
Fails == (srv.pc # "up" /\ UNCHANGED losses) \/ (losses < MaxLosses /\ losses' = losses + 1)

\* PublicKey in the loop of checkServerKey; an error ends the readiness.
pollKey ==
  /\ chk.pc = "poll"
  /\ \/ /\ srv.pc = "up"
        /\ chk' = [chk EXCEPT !.pc = "compare", !.key = srv.ecc]
        /\ UNCHANGED <<ec, losses>>
     \/ /\ Fails
        /\ ec' = [ec EXCEPT !.ready = FALSE]
        /\ UNCHANGED chk
  /\ UNCHANGED <<disk, srv, call, kept, crashes>>

\* Faulty: a handshake is made only by a client that has no key.
KeyChangedFirstOnly == ec.keystore = 0

KeyChanged == chk.key # ec.keystore

compareKey ==
  /\ chk.pc = "compare"
  /\ chk' = [chk EXCEPT !.pc = IF KeyChanged THEN "load" ELSE "poll", !.key = 0]
  /\ UNCHANGED <<disk, srv, ec, call, kept, crashes, losses>>

HandshakeFailed == /\ ec' = [ec EXCEPT !.ready = FALSE]
                   /\ chk' = [chk EXCEPT !.pc = "poll", !.reply = ""]

\* Handshake's encryptBody(input, true): the key is fetched again, and keystore
\* and shared are replaced before anything is agreed.
loadKey ==
  /\ chk.pc = "load"
  /\ \/ /\ srv.pc = "up"
        /\ ec' = [ec EXCEPT !.keystore = srv.ecc, !.shared = srv.ecc]
        /\ chk' = [chk EXCEPT !.pc = "post"]
        /\ UNCHANGED losses
     \/ Fails /\ HandshakeFailed
  /\ UNCHANGED <<disk, srv, call, kept, crashes>>

\* The POST of Handshake and /api/handshake: decryptSharedBody with the key
\* of this service, the shared key cached, the text sent back.
postHandshake ==
  /\ chk.pc = "post"
  /\ \/ /\ srv.pc = "up" /\ ec.shared = srv.ecc
        /\ srv' = [srv EXCEPT !.cached = srv.ecc]
        /\ \/ chk' = [chk EXCEPT !.pc = "reply", !.reply = "echo"] /\ UNCHANGED <<ec, losses>>
           \/ losses < MaxLosses /\ losses' = losses + 1 /\ HandshakeFailed
     \/ /\ srv.pc = "up" /\ ec.shared # srv.ecc
        /\ \/ chk' = [chk EXCEPT !.pc = "reply", !.reply = ""] /\ UNCHANGED srv
           \/ chk' = [chk EXCEPT !.pc = "reply", !.reply = "junk"] /\ srv' = [srv EXCEPT !.cached = srv.ecc]
        /\ UNCHANGED <<ec, losses>>
     \/ Fails /\ HandshakeFailed /\ UNCHANGED srv
  /\ UNCHANGED <<disk, call, kept, crashes>>

\* Only the text it sent makes the client ready; other text is no error.
readHandshake ==
  /\ chk.pc = "reply"
  /\ \/ /\ chk.reply = "echo"
        /\ ec' = [ec EXCEPT !.ready = TRUE]
        /\ chk' = [chk EXCEPT !.pc = "poll", !.reply = ""]
     \/ /\ chk.reply = "junk"
        /\ UNCHANGED ec
        /\ chk' = [chk EXCEPT !.pc = "poll", !.reply = ""]
     \/ chk.reply # "echo" /\ HandshakeFailed
  /\ UNCHANGED <<disk, srv, call, kept, crashes, losses>>

-----------------------------------------------------------------------------
(* An operation of the client *)

\* encryptBody(input, false): CheckReady, then the key of this moment.
encrypt(op) ==
  /\ call.pc = "idle" /\ ec.ready
  /\ op \in Takers => kept[Maker[op]] # 0
  /\ call' = [Idle EXCEPT !.pc = "send", !.op = op, !.enc = ec.shared]
  /\ UNCHANGED <<disk, srv, ec, chk, kept, crashes, losses>>

\* decryptBody of the service: the plain text and the key it takes, which is
\* empty when there is none cached or the text does not decrypt.
decryptBody ==
  IF srv.cached = call.enc THEN {[plain |-> "in", key |-> srv.cached]}
  ELSE {[plain |-> "", key |-> 0]} \cup
       (IF srv.cached = 0 THEN {} ELSE {[plain |-> "junk", key |-> srv.cached]})

\* What DefaultEncipher makes of the plain text: nothing of the empty string,
\* otherwise a value under the keys of the keystore.  A token serves as salt of
\* the key and is not verified; a token is created, and a setting named, only
\* by a text of the right form.
Signature(plain) == IF plain = "" THEN 0 ELSE srv.key
TokenSignature(plain) == IF plain = "" THEN 0 ELSE srv.key
AesEncrypt(plain) == IF plain = "" THEN 0 ELSE srv.key
TokenEncrypt(plain) == IF plain = "" THEN 0 ELSE srv.key
TokenCreate(plain) == IF plain = "in" THEN srv.key ELSE 0
ReadConfig(plain) == IF plain = "in" THEN srv.key ELSE 0

\* Encrypted for the peer's public key: of the keystore it uses nothing.
EccEncrypt(plain) == IF plain = "" THEN 0 ELSE 1

\* 1 if what was made earlier is good under these keys, otherwise 0; the two
\* weeks a token lives do not end here.
Good(op, plain) == IF plain = "in" /\ kept[op] = srv.key THEN 1 ELSE 0
VerifySignature(plain) == Good("Signature", plain)
TokenVerifySignature(plain) == Good("TokenSignature", plain)
AesDecrypt(plain) == Good("AesEncrypt", plain)
EccDecrypt(plain) == Good("Config", plain)
TokenDecrypt(plain) == Good("TokenEncrypt", plain)
TokenVerify(plain) == Good("TokenCreate", plain)

\* The routes of StartNodeEncipher.
Result(op, plain) ==
  CASE op = "Signature"            -> Signature(plain)
    [] op = "TokenSignature"       -> TokenSignature(plain)
    [] op = "SignatureVerify"      -> VerifySignature(plain)
    [] op = "TokenSignatureVerify" -> TokenVerifySignature(plain)
    [] op = "Config"               -> ReadConfig(plain)
    [] op = "AesEncrypt"           -> AesEncrypt(plain)
    [] op = "AesDecrypt"           -> AesDecrypt(plain)
    [] op = "EccEncrypt"           -> EccEncrypt(plain)
    [] op = "EccDecrypt"           -> EccDecrypt(plain)
    [] op = "TokenEncrypt"         -> TokenEncrypt(plain)
    [] op = "TokenDecrypt"         -> TokenDecrypt(plain)
    [] op = "TokenCreate"          -> TokenCreate(plain)
    [] op = "TokenVerify"          -> TokenVerify(plain)

\* The POST and the handler of the operation: the result and its HMAC under
\* the key that decryptBody returned, even if that is empty.
postCall ==
  /\ call.pc = "send"
  /\ \/ /\ srv.pc = "up"
        /\ \E d \in decryptBody :
             call' = [call EXCEPT !.pc = "check", !.plain = d.plain,
                                  !.res = Result(call.op, d.plain), !.signed = d.key]
        /\ UNCHANGED losses
     \/ Fails /\ call' = Idle
  /\ UNCHANGED <<disk, srv, ec, chk, kept, crashes>>

\* Operations whose answer is encrypted under the agreed key as well.
Sealed(op) ==
  op \notin {"Signature", "TokenSignature", "SignatureVerify", "TokenSignatureVerify"}

\* Faulty: the header with the HMAC is not looked at.
SignValidAlways == TRUE

SignValid == call.signed = ec.shared

\* The client compares the HMAC with the key it has now.
checkAnswer ==
  /\ call.pc = "check"
  /\ call' = CASE ~SignValid                    -> Idle
               [] SignValid /\ Sealed(call.op)  -> [call EXCEPT !.pc = "open"]
               [] SignValid /\ ~Sealed(call.op) -> [call EXCEPT !.pc = "accept"]
  /\ UNCHANGED <<disk, srv, ec, chk, kept, crashes, losses>>

\* decryptBody of the client, with the key it has by then: an empty answer is
\* an error, and what was encrypted under another key is one or yields junk.
Opens(plain) ==
  call.res # 0 /\ plain = IF call.signed = ec.shared THEN call.plain ELSE "junk"
OpenFails == call.signed # ec.shared \/ call.res = 0

openAnswer ==
  /\ call.pc = "open"
  /\ \/ \E plain \in Texts : Opens(plain) /\ call' = [call EXCEPT !.pc = "accept", !.plain = plain]
     \/ OpenFails /\ call' = Idle
  /\ UNCHANGED <<disk, srv, ec, chk, kept, crashes, losses>>

\* The caller has its answer; it keeps what it asked to be made, in place of
\* what it had: results do not depend on each other.
accept ==
  /\ call.pc = "accept"
  /\ call' = Idle
  /\ kept' = IF call.op \notin Makers \/ call.plain # "in" THEN kept
             ELSE [op \in Makers |-> IF op = call.op THEN call.res ELSE 0]
  /\ UNCHANGED <<disk, srv, ec, chk, crashes, losses>>

-----------------------------------------------------------------------------
Service == Start \/ createFile \/ writeFile \/ readKeystore \/ loadConfig
Checker == pollKey \/ compareKey \/ loadKey \/ postHandshake \/ readHandshake
Caller == (\E op \in Ops : encrypt(op)) \/ postCall \/ checkAnswer \/ openAnswer \/ accept

NextEncipher == Service \/ Crash \/ Checker \/ Caller

\* The supervisor starts a service that is down; the loop of the client runs.
EncipherFairness == WF_encipherVars(Service) /\ WF_encipherVars(Checker)
EncipherSpec == InitEncipher /\ [][NextEncipher]_encipherVars /\ EncipherFairness

-----------------------------------------------------------------------------
(* Properties *)

Starts == 0..(MaxCrashes + 1)
ServicePlaces == {"down", "files", "write", "up"}
CheckerPlaces == {"poll", "compare", "load", "post", "reply"}
CallPlaces == {"idle", "send", "check", "open", "accept"}
Replies == {"", "echo", "junk"}

EncipherTypes ==
  /\ disk \in [1..Len(Files) -> Starts \cup {Empty}]
  /\ srv \in [pc : ServicePlaces, i : 1..(Len(Files) + 1), ecc : Starts, cached : Starts, key : Starts]
  /\ ec \in [keystore : Starts, shared : Starts, ready : BOOLEAN]
  /\ chk \in [pc : CheckerPlaces, key : Starts, reply : Replies]
  /\ call \in [pc : CallPlaces, op : Ops, enc : Starts, plain : Texts, res : Starts, signed : Starts]
  /\ kept \in [Makers -> Starts]
  /\ crashes \in 0..MaxCrashes /\ losses \in 0..MaxLosses

\* What the service once signed, encrypted or issued for this caller is good
\* for ever: whenever the caller's own text arrives, the handler verifies or
\* decrypts it, whatever crashes came between (createKeystore, LoadConfig).
\* This is of the answer the service gives, before the client drops it for an
\* empty body or a sign it cannot check.
RoundTrips ==
  call.pc \in {"check", "open", "accept"} /\ call.op \in Takers /\ call.plain = "in"
    => call.res = 1

\* An answer the client accepts is the answer to what it sent; if not, the key
\* was replaced by a handshake while the call was under way (encryptBody,
\* decryptBody and the comparison of the HMAC each read shared anew).
AnswerMatches ==
  call.pc = "accept" /\ call.plain # "in" => ec.shared # call.enc

\* The client and the service have agreed on the key of this service.
Linked == srv.pc = "up" /\ ec.ready /\ ec.shared = srv.ecc /\ srv.cached = srv.ecc

\* The two ends the code has no way out of: a client that is not ready although it knows
\* the service's key, and a service whose keystore was created and not written.
Stalled == srv.pc = "up" /\ ~ec.ready /\ ec.keystore = srv.ecc
Unusable == disk[1] = Empty

\* Once the service has stopped crashing the client agrees with it again, or
\* one of the two is in an end it never leaves, and there are no other ends:
\* above all the client does not stay ready with a key the service no longer
\* has (checkServerKey, Handshake).
Recovers == <>[](Linked \/ Stalled \/ Unusable)

=============================================================================
