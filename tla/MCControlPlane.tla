--------------------------- MODULE MCControlPlane ---------------------------
(***************************************************************************)
(* Instances of ControlPlane for TLC.  A cfg picks the deployment by name: *)
(* one server beside the operator CLI, one server with two threads, or two *)
(* servers.                                                                *)
(***************************************************************************)
EXTENDS PlaneClaims, PlaneInductive

\* Conversations: the customer's chat, the same customer's operator session, and a
\* stranger's chat.
MCConversations == {"chat", "cli", "stranger"}
MCCustomerOf == [c \in MCConversations |-> IF c = "stranger" THEN "bob" ELSE "ana"]
OneConversation == {"chat"}
OneCustomer == [c \in OneConversation |-> "ana"]

Trusted == [c \in Conversations |-> TRUE]

\* One name is one contact, the other is two.
MCNames == {"renata", "ana"}
MCRecipients == {"renata", "ana_lima", "ana_costa"}
MCFindContacts ==
  [n \in MCNames |-> IF n = "renata" THEN {"renata"} ELSE {"ana_lima", "ana_costa"}]
OneName == {"joao"}
OneRecipient == {"joao"}
OneContact == [n \in OneName |-> {"joao"}]

\* Deployments.
ServerAndCli == [w \in {"worker", "operator"} |-> IF w = "worker" THEN "server" ELSE "cli"]
OneServer == [w \in Workers |-> "server"]
TwoServers ==
  [w \in {"worker", "other", "operator"} |->
     CASE w = "worker" -> "server" [] w = "other" -> "server2" [] w = "operator" -> "cli"]

\* Where a process finds TRAIL_CONFIRMATION_SECRET.  One key: the variable is in every
\* process's environment (exported, or the CLI run in the agent's container) or in none's.
\* The host's CLI: the servers have the key of .env, the operator's shell has none, and
\* plane.py falls back on its default.
OneSecret == [p \in Processes |-> "env"]
HostCli == [p \in Processes |-> IF p \in Servers THEN "env" ELSE "default"]

\* Midday throughout, or night falling (23h UTC is 20h in Sao Paulo) at tick 1.
Midday == [t \in Times |-> 15]
Nightfall == [t \in Times |-> IF t = 0 THEN 22 ELSE 23]
=============================================================================
