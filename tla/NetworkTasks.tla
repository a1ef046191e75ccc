---------------------------- MODULE NetworkTasks ----------------------------
(***************************************************************************)
(* internal/provider/network: the five tasks, which ask the network from   *)
(* the agent's host.  The provider has no client and no configuration.     *)
(***************************************************************************)
EXTENDS TaskSteps

Ask(answer) == <<Call("current", answer, "fail")>>

\* A string that must not be empty, spaces aside.
Named(p) == Reading(p, {"blank", "text", "odd"}, Unsaid, Unsaid)

\* Strings of which any value is taken, and those that have to parse.
LaxText(p, d)   == Lax(Text(p, d))
LaxParsed(p, d) == [LaxText(p, d) EXCEPT !.takes = @ \ {"blank", "odd"}]

\* The lookup is made with the agent's resolver, or over a connection to the server given.
Dns == Task("network",
  [target |-> Must(Str), record_type |-> Or(Choice, "A"), protocol |-> Choice, server |-> Str],
  <<Named("target"), LaxText("protocol", ""), LaxText("server", ""),
    LaxParsed("record_type", "A")>> \o Ask("ordered"))

\* A count below 1 counts as absent; the target is looked up and then asked.
Ping == Task("network", [target |-> Must(Str), count |-> UpTo("4", "30")],
  <<Named("target"), [Lax(Num("count", "4")) EXCEPT !.takes = @ \ {"huge"}]>>
    \o Ask("none") \o Ask("none"))

\* A timeout that does not parse counts as absent.
Socket == Task("network",
  [host |-> Must(Str), port |-> Must(Field({"whole"})), protocol |-> Or(Choice, "tcp"),
   timeout |-> Or(Str, "5s")],
  <<Named("host"), Reading("port", {"whole"}, Unsaid, Unsaid), LaxText("protocol", "tcp"),
    LaxText("timeout", "5s")>> \o Ask("none"))

\* The connection, and then the handshake.  A certificate without a key is not used.
Tls == Task("network",
  [target |-> Must(Str), server_name |-> Str, ca_cert |-> Str, client_cert |-> Str,
   client_key |-> Str, insecure_skip_verify |-> Or(Flag, "false")],
  <<Named("target"), LaxText("server_name", ""), LaxText("client_cert", ""),
    LaxText("client_key", ""), Lax(Bool("insecure_skip_verify", "false")),
    LaxParsed("ca_cert", ""), Verify>> \o Ask("none") \o Ask("none"))

\* A probe is sent for each number of hops; what it meets with is its item of the answer.
Probes == <<Reports(Call("current", "ordered", "fail"))>>

\* The target is looked up, and then the hops on the way to it.
Traceroute == Task("network",
  [target |-> Must(Str), max_hops |-> UpTo("30", "64"), timeout |-> Or(Str, "2s"),
   protocol |-> Or(Choice, "udp")],
  <<Need("target"), Reading("max_hops", {"absent", "whole"}, "30", Unsaid),
    Reading("timeout", {"absent", "text"}, "2s", Unsaid), Parsed("protocol", "udp")>>
    \o Ask("none") \o <<Find>> \o Probes)

NetworkTasks == [network_dns_lookup |-> Dns, network_icmp_echo_request |-> Ping,
                 network_socket_connect |-> Socket, network_tls_handshake |-> Tls,
                 network_traceroute |-> Traceroute]
=============================================================================
