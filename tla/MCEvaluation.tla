----------------------------- MODULE MCEvaluation ----------------------------
(***************************************************************************)
(* Evaluation on the surface of a small shop and its carriers, as far as a *)
(* reviewer has approved it.  One approved workflow replaces the operation *)
(* that deletes one order, another makes an order and books a carrier for  *)
(* it, and a third is only proposed.                                       *)
(***************************************************************************)
EXTENDS Evaluation, Samples

INSTANCE Ingestion

OrderId == Parameter("orderId", "path", TRUE)
CarrierId == Parameter("carrierId", "path", TRUE)
Orders == <<Fixed("orders")>>
Carriers == <<Fixed("carriers")>>
Bookings == Carriers \o <<Template("carrierId"), Fixed("bookings")>>

List == Raw("get", <<"list", "orders">>, "listOrders")
Make == [Raw("post", <<"make", "order">>, "makeOrder") EXCEPT !.body = JsonBody]
Cancel == Raw("delete", <<"delete", "order">>, "deleteOrder")
Settle == [Raw("put", <<"settle">>, "settle") EXCEPT !.parameters = <<Parameter("by", "query", TRUE)>>]
Look == Raw("get", <<"list", "carriers">>, "listCarriers")
Clear == [Raw("delete", <<"delete", "carriers">>, "clearCarriers") EXCEPT
             !.parameters = <<Parameter("ids", "query", FALSE)>>]
Book == [Raw("post", <<"book", "carrier">>, "bookCarrier") EXCEPT !.body = JsonBody]

Shop ==
    Document("shop", "shop", "3.1", Secured(<<Alternative({"oauth"}, {"orders"})>>), NoLibrary,
        <<Path("orders", Orders, <<>>, <<List, Make>>),
          Path("order", Orders \o <<Template("orderId")>>, <<OrderId>>, <<Cancel>>),
          Path("settled", <<Fixed("settled")>>, <<>>, <<Settle>>),
          Path("carriers", Carriers, <<>>, <<Look, Clear>>),
          Path("bookings", Bookings, <<CarrierId>>, <<Book>>)>>)

Workflow(steps, status, supersedes) ==
    [id |-> steps, name |-> steps, steps |-> steps, status |-> status,
     supersedes |-> supersedes]
Approved == {"deleteOrder", "clearCarriers", "bookCarrier"}
Reviewed ==
    [digest |-> Shop.bytes,
     entries |-> [id \in Approved |-> [Blank EXCEPT !.status = "approved"]]
                 @@ ("settle" :> [Blank EXCEPT !.omit = TRUE]),
     composites |-> <<Workflow(<<"listOrders", "deleteOrder">>, "approved", TRUE),
                      Workflow(<<"makeOrder", "listCarriers", "bookCarrier">>, "approved", FALSE),
                      Workflow(<<"listCarriers", "bookCarrier">>, "proposed", FALSE)>>]

Parsed == {ParseDocument(Shop)}
Planned1 == {[ir |-> ir, plan |-> PlanSemantic(ir, Reviewed)] : ir \in Parsed}
Governed1 ==
    {[ir |-> p.ir, plan |-> p.plan, manifest |-> SynthesizePolicy(p.ir, p.plan)] : p \in Planned1}
Surfaced ==
    {[ir |-> p.ir, surface |-> GenerateSurface(p.ir, p.plan, p.manifest),
      manifest |-> p.manifest] : p \in Governed1}
MCSettings == Surfaced

Stored(word) == [key |-> <<word>>, fields |-> "id" :> <<word>>]
Task(fixture, prohibited) == [fixture |-> fixture, prohibited |-> prohibited, maxCalls |-> 3]
MCTasks ==
    {Task(<<"orders">> :> <<Stored("n1"), Stored("n2")>>, {"bookCarrier", "clearCarriers"}),
     Task(<<"carriers">> :> <<Stored("n1")>>, {"deleteOrder", "makeOrder"})}
MCValues == {<<"n1">>}
MCBodies == <<"plain">> :> ("total" :> <<"low">>) @@ <<"named">> :> ("id" :> <<"n1">>)
MCSuffixed == {}
=============================================================================
