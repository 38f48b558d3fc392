------------------------------ MODULE MCServices ------------------------------
(***************************************************************************)
(* Instances of AgentRun, Ordering, Analytics, CatalogCache, Users,        *)
(* Chunker, Retrieval, Gateway, OrderRecords, EventContracts and Processes *)
(* for TLC.                                                                *)
(*                                                                         *)
(* They share no variable and no step, so that nothing is lost when only   *)
(* one of them leaves its initial state in a behaviour: every property     *)
(* here is about one of them.  That makes their state spaces add up where  *)
(* those of a product would multiply.                                      *)
(***************************************************************************)
EXTENDS AgentRun, Ordering, Analytics, CatalogCache, Users, Chunker, Retrieval, Gateway,
        OrderRecords, EventContracts, Processes

CONSTANTS k1, k2

--------------------------------------------------------------------------------
(* A call of StartRun, and another that may take its session; room for a turn and a   *)
(* second turn or a tool.  The model's answers: a good one, an empty one, and one that *)
(* names a SKU twice.                                                                 *)

CONSTANTS r1, session

OneSession == [r \in Runs |-> session]

Item(k, rank) == [sku |-> k, rank |-> rank, reason |-> "given"]

ModelAnswers ==
  {<<Item(k1, 1), Item(k2, 2)>>, <<>>, <<Item(k1, 1), Item(k1, 2)>>}

--------------------------------------------------------------------------------
(* Three AddCartItem, two of them for one SKU; two CreateOrder with one request and    *)
(* different addresses; promotions that tie, one that makes an order negative, and one *)
(* without a discount.                                                                 *)

CONSTANTS c1, c2, a1, a2, a3, h1, h2

OneRequest == [c \in OrderCalls |-> "request"]
TwoAddresses == [c \in OrderCalls |-> IF c = c1 THEN h1 ELSE h2]
AddedSku == [a \in AddCalls |-> IF a = a3 THEN k2 ELSE k1]
AddedQuantity == [a \in AddCalls |-> 1]

SomeOffers == {[price |-> 3, saleable |-> TRUE], [price |-> 4, saleable |-> FALSE]}

Promo(i, t, d) == [id |-> i, threshold |-> t, discount |-> d]

SomePromotions ==
  {<<Promo(1, NoThreshold, 1), Promo(2, 6, 2), Promo(3, 6, 1)>>,
   <<Promo(4, NoThreshold, 4)>>,
   <<Promo(5, 9, NotMoney)>>}

--------------------------------------------------------------------------------
(* Three submissions for an order of two SKUs, two of them for one; two readers in the *)
(* group of the reviews, one in that of the behaviour events.                          *)

CONSTANTS o1, p1, v1, v2, v3, b1, w1, w2, w3

SomeReviews ==
  [s \in Submissions |-> [order |-> o1, sku |-> IF s = v3 THEN k2 ELSE k1,
                          rating |-> IF s = v1 THEN 5 ELSE 2]]
AllOrdered == [o \in ReviewedOrders |-> SKUs]
OneProduct == [k \in SKUs |-> p1]
TwoGroups == [w \in Consumers |-> IF w = w3 THEN "behavior" ELSE "review"]

--------------------------------------------------------------------------------
(* A reader of a product; an update and a release of the expiry worker.                *)

CONSTANTS product, q1, u1, e1, i1

ReadsProduct == [q \in CacheReaders |-> product]
ClearsAll == [u \in Updates |-> CacheKeys]

--------------------------------------------------------------------------------
(* A SKU's current document and the one to replace it, and a document of another type. *)

CONSTANTS g1, g2, g3, t1, t2

TwoTypes == [d \in KnowledgeDocuments |-> IF d = g3 THEN t2 ELSE t1]
SomeChunks == [d \in KnowledgeDocuments |-> IF d = g1 THEN 2 ELSE 1]

--------------------------------------------------------------------------------
(* The module of this behaviour; the others keep their initial states.                 *)

VARIABLE subject

ServicesInit ==
  /\ subject \in {"agent", "ordering", "analytics", "cache", "users", "chunker",
                  "retrieval", "gateway", "records", "contracts", "processes"}
  /\ AgentInit /\ OrderingInit /\ AnalyticsInit /\ CacheInit
  /\ UsersInit /\ ChunkerInit /\ RetrievalInit /\ GatewayInit
  /\ RecordsInit /\ ContractsInit /\ ProcessesInit

ServicesNext ==
  \/ /\ subject = "agent" /\ AgentNext
     /\ UNCHANGED <<subject, orderingVars, analyticsVars, cacheVars, userVars,
                    chunkerVars, retrievalVars, gatewayVars, recordVars,
                    contractVars, processVars>>
  \/ /\ subject = "ordering" /\ OrderingNext
     /\ UNCHANGED <<subject, agentVars, analyticsVars, cacheVars, userVars,
                    chunkerVars, retrievalVars, gatewayVars, recordVars,
                    contractVars, processVars>>
  \/ /\ subject = "analytics" /\ AnalyticsNext
     /\ UNCHANGED <<subject, agentVars, orderingVars, cacheVars, userVars,
                    chunkerVars, retrievalVars, gatewayVars, recordVars,
                    contractVars, processVars>>
  \/ /\ subject = "cache" /\ CacheNext
     /\ UNCHANGED <<subject, agentVars, orderingVars, analyticsVars, userVars,
                    chunkerVars, retrievalVars, gatewayVars, recordVars,
                    contractVars, processVars>>
  \/ /\ subject = "users" /\ UsersNext
     /\ UNCHANGED <<subject, agentVars, orderingVars, analyticsVars, cacheVars,
                    chunkerVars, retrievalVars, gatewayVars, recordVars,
                    contractVars, processVars>>
  \/ /\ subject = "chunker" /\ ChunkerNext
     /\ UNCHANGED <<subject, agentVars, orderingVars, analyticsVars, cacheVars,
                    userVars, retrievalVars, gatewayVars, recordVars, contractVars,
                    processVars>>
  \/ /\ subject = "retrieval" /\ RetrievalNext
     /\ UNCHANGED <<subject, agentVars, orderingVars, analyticsVars, cacheVars,
                    userVars, chunkerVars, gatewayVars, recordVars, contractVars,
                    processVars>>
  \/ /\ subject = "gateway" /\ GatewayNext
     /\ UNCHANGED <<subject, agentVars, orderingVars, analyticsVars, cacheVars,
                    userVars, chunkerVars, retrievalVars, recordVars, contractVars,
                    processVars>>
  \/ /\ subject = "records" /\ RecordsNext
     /\ UNCHANGED <<subject, agentVars, orderingVars, analyticsVars, cacheVars,
                    userVars, chunkerVars, retrievalVars, gatewayVars, contractVars,
                    processVars>>
  \/ /\ subject = "contracts" /\ ContractsNext
     /\ UNCHANGED <<subject, agentVars, orderingVars, analyticsVars, cacheVars,
                    userVars, chunkerVars, retrievalVars, gatewayVars, recordVars,
                    processVars>>
  \/ /\ subject = "processes" /\ ProcessesNext
     /\ UNCHANGED <<subject, agentVars, orderingVars, analyticsVars, cacheVars,
                    userVars, chunkerVars, retrievalVars, gatewayVars, recordVars,
                    contractVars>>

servicesVars ==
  <<subject, agentVars, orderingVars, analyticsVars, cacheVars, userVars,
    chunkerVars, retrievalVars, gatewayVars, recordVars, contractVars, processVars>>

ServicesSpec == ServicesInit /\ [][ServicesNext]_servicesVars

\* Every variable keeps to its type.
ServicesTypeOK ==
  /\ subject = "agent" => AgentTypeOK
  /\ subject = "ordering" => OrderingTypeOK
  /\ subject = "analytics" => AnalyticsTypeOK
  /\ subject = "cache" => CacheTypeOK
  /\ subject = "users" => UsersTypeOK
  /\ subject = "chunker" => ChunkerTypeOK
  /\ subject = "retrieval" => RetrievalTypeOK
  /\ subject = "gateway" => GatewayTypeOK
  /\ subject = "records" => RecordsTypeOK
  /\ subject = "contracts" => ContractsTypeOK
  /\ subject = "processes" => ProcessesTypeOK

================================================================================
