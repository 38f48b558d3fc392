-------------------------------- MODULE Gateway --------------------------------
(***************************************************************************)
(* gateway: a request on its way through middleware, handler and client to *)
(* a service, and its answer on the way back.                              *)
(*                                                                         *)
(* The token is verified here and again in the service, which it reaches   *)
(* with the call.  The call has two seconds; the service goes on when they *)
(* are over, and MySQL may commit what nobody waits for any more.  What a  *)
(* service says is a gRPC code, by its own table, and every handler has a  *)
(* table of its own that makes HTTP of it.  After a success some handlers  *)
(* record a behaviour event, which BehaviorOutbox then publishes.          *)
(*                                                                         *)
(* Of the services this module knows what they promise in modules of their *)
(* own: an error they name means that nothing is done for this request,    *)
(* PaymentInProgress and any other error leave it open.  For StartRun and  *)
(* PayWallet what is done is a run that succeeded and an attempt that paid.*)
(*                                                                         *)
(* Left out: the JSON of requests and answers, trace identifiers, and the  *)
(* checks for clients and recorders that main always provides.             *)
(***************************************************************************)
EXTENDS Integers, FiniteSets, SharedNames

CONSTANT HttpRequests

--------------------------------------------------------------------------------
(* Handlers: what they call; whether there is input they can refuse, and whether they *)
(* record an event.  Upload has a second route for operators, GetRun one for events.  *)

OrderHandler ==
  [call \in {"GetCart", "AddCartItem", "UpdateCartItem", "DeleteCartItem", "ListOrders",
             "CreateOrder", "GetOrder", "PayWallet", "SubmitReview", "GetAnalyticsOverview"} |->
     [input |-> call \notin {"GetCart", "ListOrders", "GetAnalyticsOverview"},
      event |-> call \in {"AddCartItem", "CreateOrder", "PayWallet"}]]

AgentHandler ==
  [call \in {"StartRun", "GetRun", "ListRuns", "GetRunOps"} |->
     [input |-> call # "ListRuns", event |-> call = "StartRun"]]

KnowledgeHandler ==
  [call \in {"UploadDocument", "ListDocuments", "GetDocument", "RetryDocument",
             "SearchProductKnowledge"} |->
     [input |-> call # "ListDocuments", event |-> FALSE]]

ProductHandler ==
  [call \in {"ListProducts", "GetProduct"} |-> [input |-> TRUE, event |-> call = "GetProduct"]]

UserHandler ==
  [call \in {"Register", "Login", "GetMyProfile", "UpdateMyProfile", "ListMyAddresses",
             "CreateMyAddress", "UpdateMyAddress", "DeleteMyAddress"} |->
     [input |-> call \notin {"GetMyProfile", "ListMyAddresses"}, event |-> FALSE]]

Handlers ==
  [order |-> OrderHandler, agent |-> AgentHandler, knowledge |-> KnowledgeHandler,
   product |-> ProductHandler, user |-> UserHandler]

\* The routes without authMiddleware, and those with RequireOperatorHeader.
PublicCalls == {"ListProducts", "GetProduct", "Register", "Login"}
OperatorCalls == {"ListDocuments", "GetDocument", "RetryDocument", "ListRuns", "GetRunOps",
                  "GetAnalyticsOverview"}

--------------------------------------------------------------------------------
(* Services: whether a call verifies the token, whether it writes, and the codes of   *)
(* the errors they name.                                                              *)

OrderServer ==
  [call \in DOMAIN OrderHandler |->
     [verifies |-> TRUE,
      writes |-> call \notin {"GetCart", "ListOrders", "GetOrder", "GetAnalyticsOverview"}]]

OrderStatus ==
  [InvalidArgument |-> "InvalidArgument", NotFound |-> "NotFound",
   OutOfStock |-> "FailedPrecondition", InsufficientBalance |-> "ResourceExhausted",
   PaymentInProgress |-> "Aborted", IdempotencyConflict |-> "AlreadyExists"]

AgentServer == [call \in DOMAIN AgentHandler |-> [verifies |-> TRUE, writes |-> call = "StartRun"]]

AgentStatus ==
  [ErrRunNotFound |-> "NotFound", ErrInvalidToolArgument |-> "InvalidArgument",
   ErrUnknownTool |-> "FailedPrecondition", ErrMaxStepsExceeded |-> "FailedPrecondition",
   ErrModelFailed |-> "FailedPrecondition", ErrToolFailed |-> "FailedPrecondition",
   ErrInvalidFinalRecommendation |-> "FailedPrecondition",
   ErrNoValidRecommendation |-> "FailedPrecondition"]

KnowledgeServer ==
  [call \in DOMAIN KnowledgeHandler |->
     [verifies |-> call # "SearchProductKnowledge",
      writes |-> call \in {"UploadDocument", "RetryDocument"}]]

KnowledgeStatus ==
  [InvalidArgument |-> "InvalidArgument", Unauthenticated |-> "Unauthenticated",
   NotFound |-> "NotFound"]

ProductServer == [call \in DOMAIN ProductHandler |-> [verifies |-> FALSE, writes |-> FALSE]]

ProductStatus ==
  [InvalidArgument |-> "InvalidArgument", NotFound |-> "NotFound",
   OutOfStock |-> "FailedPrecondition", IdempotencyConflict |-> "FailedPrecondition"]

UserServer ==
  [call \in DOMAIN UserHandler |->
     [verifies |-> call \notin PublicCalls,
      writes |-> call \notin {"Login", "GetMyProfile", "ListMyAddresses"}]]

UserStatus ==
  [InvalidArgument |-> "InvalidArgument", Unauthenticated |-> "Unauthenticated",
   NotFound |-> "NotFound"]

Servers ==
  [order |-> OrderServer, agent |-> AgentServer, knowledge |-> KnowledgeServer,
   product |-> ProductServer, user |-> UserServer]

Statuses ==
  [order |-> OrderStatus, agent |-> AgentStatus, knowledge |-> KnowledgeStatus,
   product |-> ProductStatus, user |-> UserStatus]

Named(service) == {Statuses[service][e] : e \in DOMAIN Statuses[service]}

\* What a service does not name, what it or the client waits too long for, and what
\* another caller goes on with.
Open == {"Internal", "DeadlineExceeded", "Unavailable", "Aborted"}

\* What a client may get; None while it waits.
Codes == {"OK", "Unauthenticated"} \cup Open \cup UNION {Named(s) : s \in DOMAIN Statuses}

ASSUME GatewayAssumption == None \notin Codes

--------------------------------------------------------------------------------
(* Handlers: the answer to a code; 500 if it is not listed.                           *)

\* A timeout told as a conflict ...
WriteOrderErrorBug ==
  [InvalidArgument |-> 400, Unauthenticated |-> 401, NotFound |-> 404, AlreadyExists |-> 409,
   FailedPrecondition |-> 409, ResourceExhausted |-> 409, Aborted |-> 409,
   DeadlineExceeded |-> 409, Unavailable |-> 504]

WriteOrderError ==
  [InvalidArgument |-> 400, Unauthenticated |-> 401, NotFound |-> 404, AlreadyExists |-> 409,
   FailedPrecondition |-> 409, ResourceExhausted |-> 409, Aborted |-> 409,
   DeadlineExceeded |-> 504, Unavailable |-> 504]

WriteAgentError ==
  [InvalidArgument |-> 400, Unauthenticated |-> 401, NotFound |-> 404,
   FailedPrecondition |-> 409, DeadlineExceeded |-> 504, Unavailable |-> 504]

WriteKnowledgeError ==
  [InvalidArgument |-> 400, Unauthenticated |-> 401, NotFound |-> 404,
   DeadlineExceeded |-> 504, Unavailable |-> 504]

WriteProductError ==
  [InvalidArgument |-> 400, NotFound |-> 404, DeadlineExceeded |-> 504, Unavailable |-> 504]

WriteUserError ==
  [InvalidArgument |-> 400, Unauthenticated |-> 401, NotFound |-> 404,
   DeadlineExceeded |-> 504, Unavailable |-> 504]

HttpAnswers ==
  [order |-> WriteOrderError, agent |-> WriteAgentError, knowledge |-> WriteKnowledgeError,
   product |-> WriteProductError, user |-> WriteUserError]

HttpStatus(service, code) ==
  IF code \in DOMAIN HttpAnswers[service] THEN HttpAnswers[service][code] ELSE 500

--------------------------------------------------------------------------------

VARIABLES
  route,      \* service and call of a request
  tokenValid, \* its bearer token verifies, for now
  operator,   \* its operator header is set
  handling,   \* where it is in the gateway
  serving,    \* ... and in the service
  grpcCode,   \* what the client has returned
  effect,     \* what it asks for is in the database
  event,      \* what became of its behaviour event
  httpAnswer  \* what the HTTP client has got, 0 before

gatewayVars == <<route, tokenValid, operator, handling, serving, grpcCode, effect, event, httpAnswer>>

Routes == UNION {{s} \X DOMAIN Handlers[s] : s \in DOMAIN Handlers}

Service(r) == route[r][1]
Call(r) == route[r][2]

GatewayTypeOK ==
  /\ route \in [HttpRequests -> Routes \cup {None}]
  /\ tokenValid \in [HttpRequests -> BOOLEAN]
  /\ operator \in [HttpRequests -> BOOLEAN]
  /\ handling \in [HttpRequests ->
       {"idle", "authenticate", "operator", "input", "call", "record", "reply", "end"}]
  /\ serving \in [HttpRequests -> {"none", "verify", "run", "gone", "open"}]
  /\ grpcCode \in [HttpRequests -> Codes \cup {None}]
  /\ effect \in [HttpRequests -> BOOLEAN]
  /\ event \in [HttpRequests -> {"none", "recorded", "refused", "lost"}]
  /\ httpAnswer \in [HttpRequests -> {0, 200, 400, 401, 403, 404, 409, 500, 503, 504}]

GatewayInit ==
  /\ route = [r \in HttpRequests |-> None]
  /\ tokenValid = [r \in HttpRequests |-> FALSE]
  /\ operator = [r \in HttpRequests |-> FALSE]
  /\ handling = [r \in HttpRequests |-> "idle"]
  /\ serving = [r \in HttpRequests |-> "none"]
  /\ grpcCode = [r \in HttpRequests |-> None]
  /\ effect = [r \in HttpRequests |-> FALSE]
  /\ event = [r \in HttpRequests |-> "none"]
  /\ httpAnswer = [r \in HttpRequests |-> 0]

--------------------------------------------------------------------------------
(* The gateway.                                                              *)

Move(r, from, to) ==
  /\ handling[r] = from
  /\ handling' = [handling EXCEPT ![r] = to]

\* An answer after the server's own has been given goes nowhere.
GiveAnswer(r, code) ==
  httpAnswer' = IF httpAnswer[r] = 0 THEN [httpAnswer EXCEPT ![r] = code] ELSE httpAnswer

Receive(r, to, token, header) ==
  /\ Move(r, "idle", "authenticate")
  /\ route' = [route EXCEPT ![r] = to]
  /\ tokenValid' = [tokenValid EXCEPT ![r] = token]
  /\ operator' = [operator EXCEPT ![r] = header]
  /\ UNCHANGED <<serving, grpcCode, effect, event, httpAnswer>>

\* Checked or not; a request that does not pass ends with this code.
Pass(r, from, to, passes, code) ==
  /\ Move(r, from, IF passes THEN to ELSE "end")
  /\ IF passes THEN UNCHANGED httpAnswer ELSE GiveAnswer(r, code)
  /\ UNCHANGED <<route, tokenValid, operator, serving, grpcCode, effect, event>>

Authenticate(r) ==
  Pass(r, "authenticate", "operator", Call(r) \in PublicCalls \/ tokenValid[r], 401)

RequireOperatorHeader(r) ==
  Pass(r, "operator", "input", Call(r) \notin OperatorCalls \/ operator[r], 403)

RefuseInput(r) ==
  /\ handling[r] = "input"
  /\ Handlers[Service(r)][Call(r)].input
  /\ Pass(r, "input", "call", FALSE, 400)

CallService(r) ==
  /\ Move(r, "input", "call")
  /\ serving' = [serving EXCEPT ![r] = "verify"]
  /\ UNCHANGED <<route, tokenValid, operator, grpcCode, effect, event, httpAnswer>>

\* The deadline of the client passes, or there is no connection.
CallFails(r) ==
  /\ handling[r] = "call"
  /\ grpcCode[r] = None
  /\ \E code \in {"DeadlineExceeded", "Unavailable"} :
       grpcCode' = [grpcCode EXCEPT ![r] = code]
  /\ UNCHANGED <<route, tokenValid, operator, handling, serving, effect, event, httpAnswer>>

\* Only now is there anything to record.
CallReturns(r) ==
  /\ grpcCode[r] # None
  /\ IF grpcCode[r] = "OK"
     THEN /\ Move(r, "call", IF Handlers[Service(r)][Call(r)].event THEN "record" ELSE "reply")
          /\ UNCHANGED httpAnswer
     ELSE /\ Move(r, "call", "end")
          /\ GiveAnswer(r, HttpStatus(Service(r), grpcCode[r]))
  /\ UNCHANGED <<route, tokenValid, operator, serving, grpcCode, effect, event>>

\* An event has the user of the principal that authMiddleware put into the context;
\* Validate wants one.  The error is dropped.
RecordBehavior(r) ==
  /\ Move(r, "record", "reply")
  /\ \E result \in IF Call(r) \in PublicCalls THEN {"refused"} ELSE {"recorded", "lost"} :
       event' = [event EXCEPT ![r] = result]
  /\ UNCHANGED <<route, tokenValid, operator, serving, grpcCode, effect, httpAnswer>>

WriteJSONValue(r) ==
  /\ Move(r, "reply", "end")
  /\ GiveAnswer(r, 200)
  /\ UNCHANGED <<route, tokenValid, operator, serving, grpcCode, effect, event>>

\* go-zero's own timeout; the handler goes on.
ServerTimeout(r) ==
  /\ handling[r] \notin {"idle", "end"}
  /\ httpAnswer[r] = 0
  /\ GiveAnswer(r, 503)
  /\ UNCHANGED <<route, tokenValid, operator, handling, serving, grpcCode, effect, event>>

--------------------------------------------------------------------------------
(* The service.                                                              *)

\* VerifyBearer looks at the time: a token may be good here and not there.
TokenExpires(r) ==
  /\ tokenValid[r]
  /\ tokenValid' = [tokenValid EXCEPT ![r] = FALSE]
  /\ UNCHANGED <<route, operator, handling, serving, grpcCode, effect, event, httpAnswer>>

\* What the service returns reaches a client that still waits.
Return(r, to, code) ==
  /\ serving' = [serving EXCEPT ![r] = to]
  /\ grpcCode' = IF grpcCode[r] = None THEN [grpcCode EXCEPT ![r] = code] ELSE grpcCode
  /\ UNCHANGED <<route, tokenValid, operator, handling, effect, event, httpAnswer>>

VerifyBearer(r) ==
  /\ serving[r] = "verify"
  /\ IF Servers[Service(r)][Call(r)].verifies /\ ~tokenValid[r]
     THEN Return(r, "gone", "Unauthenticated")
     ELSE /\ serving' = [serving EXCEPT ![r] = "run"]
          /\ UNCHANGED <<route, tokenValid, operator, handling, grpcCode, effect, event, httpAnswer>>

Refused(r) ==
  /\ serving[r] = "run"
  /\ ~effect[r]
  /\ \E code \in Named(Service(r)) \ Open : Return(r, "gone", code)

\* An error that is not named, or the time of the call is up: the transaction has been
\* rolled back, or its commit is on its way.
FailOpen(r) ==
  /\ serving[r] = "run"
  /\ \E code \in {"Internal", "DeadlineExceeded"} \cup (IF Call(r) = "PayWallet" THEN {"Aborted"} ELSE {}) :
       Return(r, "open", code)

\* In time, or after the answer; or a recovery worker has settled the payment.
Commit(r) ==
  /\ serving[r] \in {"run", "open"}
  /\ Servers[Service(r)][Call(r)].writes
  /\ effect' = [effect EXCEPT ![r] = TRUE]
  /\ UNCHANGED <<route, tokenValid, operator, handling, serving, grpcCode, event, httpAnswer>>

Succeed(r) ==
  /\ serving[r] = "run"
  /\ effect[r] \/ ~Servers[Service(r)][Call(r)].writes
  /\ Return(r, "gone", "OK")

--------------------------------------------------------------------------------

GatewayStep(r) ==
  \/ \E to \in Routes, token, header \in BOOLEAN : Receive(r, to, token, header)
  \/ Authenticate(r)
  \/ RequireOperatorHeader(r)
  \/ RefuseInput(r)
  \/ CallService(r)
  \/ CallFails(r)
  \/ CallReturns(r)
  \/ RecordBehavior(r)
  \/ WriteJSONValue(r)
  \/ ServerTimeout(r)

ServiceStep(r) ==
  \/ TokenExpires(r)
  \/ VerifyBearer(r)
  \/ Refused(r)
  \/ Commit(r)
  \/ Succeed(r)
  \/ FailOpen(r)

GatewayNext == \E r \in HttpRequests : GatewayStep(r) \/ ServiceStep(r)

GatewaySpec == GatewayInit /\ [][GatewayNext]_gatewayVars

--------------------------------------------------------------------------------
(* Properties                                                                *)

\* Whoever gets a 2xx has what was asked for.  Whoever gets a 4xx does not and never
\* will from this request, whichever of the two deadlines has passed and however late a
\* commit arrives, but for the 409 of a payment that another caller is settling.  5xx
\* says neither.  An event is recorded only of what was done.
AnswersAreHonest ==
  \A r \in HttpRequests :
    /\ httpAnswer[r] = 200 /\ Servers[Service(r)][Call(r)].writes => effect[r]
    /\ httpAnswer[r] \in 400 .. 499 => ~effect[r] \/ grpcCode[r] = "Aborted"
    /\ event[r] # "none" =>
         effect[r] \/ (~Servers[Service(r)][Call(r)].writes /\ grpcCode[r] = "OK")

================================================================================
