----------------------------- MODULE MCHttpNode -----------------------------
(***************************************************************************)
(* HttpNode with six routes and one message for every way through them,    *)
(* and the GracefulListener that StartServer gives to fasthttp: the one    *)
(* runs while the other is idle, as neither reads the state of the other.  *)
(***************************************************************************)
EXTENDS HttpNode, GracefulListener

CONSTANTS r1, r2, c1, c2

Plain == [post |-> TRUE, guest |-> FALSE, rsa |-> FALSE, aesReq |-> FALSE, aesResp |-> FALSE,
          need |-> <<>>, all |-> FALSE]
OpenRoute == [Plain EXCEPT !.guest = TRUE]
LoginRoute == [Plain EXCEPT !.rsa = TRUE]
LoginGet == [LoginRoute EXCEPT !.post = FALSE]
UserRoute == [Plain EXCEPT !.need = <<1, 2>>, !.all = TRUE]
AesRoute == [Plain EXCEPT !.aesReq = TRUE, !.aesResp = TRUE, !.need = <<1, 2>>]
UserGet == [UserRoute EXCEPT !.post = FALSE]

User == [route |-> UserRoute, token |-> "user", body |-> "ok", plan |-> 0, time |-> 1,
         signed |-> "token", code |-> "none", data |-> TRUE, has |-> <<2, 1>>]
Aes == [User EXCEPT !.route = AesRoute, !.plan = 1, !.has = <<2>>]
Login == [User EXCEPT !.route = LoginRoute, !.token = "none", !.plan = 2,
          !.signed = "server", !.code = "ok", !.has = <<>>]

MCMessages ==
  { [User EXCEPT !.route = OpenRoute, !.token = "none"],
    Login, [Login EXCEPT !.route = LoginGet],
    [User EXCEPT !.time = 2], [User EXCEPT !.has = <<1>>], [User EXCEPT !.token = "anon"],
    [User EXCEPT !.token = "expired"],
    [User EXCEPT !.token = "forged", !.signed = "other"],
    Aes, [Aes EXCEPT !.plan = 0], [Aes EXCEPT !.data = FALSE], [Aes EXCEPT !.token = "long"],
    [User EXCEPT !.route = UserGet] }

MCExtFilters == { [name |-> "Ext", order |-> -80, tie |-> -1] }
NoRequests ==
  /\ remote = FALSE /\ now = MaxTime /\ pool = {}
  /\ ctx = [c \in Contexts |-> newContext]
  /\ rq = [r \in Requests |-> [idleRequest EXCEPT !.pc = "done"]]
  /\ seen = [m \in Messages |-> 0]
  /\ answer = [r \in Requests |-> Nobody]

MCInit == (Init /\ NoListener) \/ (NoRequests /\ InitListener)
MCNext == (Next /\ UNCHANGED listenerVars) \/ (NextListener /\ UNCHANGED vars)
MCSpec == MCInit /\ [][MCNext]_<<vars, listenerVars>>

MCSymmetry == Permutations({c1, c2}) \cup Permutations({r1, r2})
=============================================================================
