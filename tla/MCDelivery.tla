------------------------------ MODULE MCDelivery -------------------------------
(***************************************************************************)
(* Delivery with one stream client, which follows the agent's label and an *)
(* area. Others post a message for the agent outside that area and a       *)
(* broadcast in it; the hook's notes are of no interest to the client.     *)
(***************************************************************************)
EXTENDS Delivery

CONSTANTS t1, home, other, me

MCFilter == [c \in Clients |-> [tenant |-> t1, target |-> me, areas |-> {other}]]

MCPosts == {[tenant |-> t1, target |-> me, area |-> home],
            [tenant |-> t1, target |-> NoLabel, area |-> other]}

===============================================================================
