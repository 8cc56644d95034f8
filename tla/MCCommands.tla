---------------------------- MODULE MCCommands ----------------------------
(* Small instances of the parts of the program for TLC.                    *)
EXTENDS Commands

Range(ip, len) == [kind |-> "cidr", ip |-> ip, len |-> len]
WordsModel ==
    {Range(4, 2), Range(0, 1), Range(5, 3), [kind |-> "ip", ip |-> 5],
     [kind |-> "name", name |-> "n1"], [kind |-> "wildcard", ips |-> <<0, 5>>],
     [kind |-> "blank"], [kind |-> "bad"]}
ServersModel == <<4, 6, 4, 0>>
SslTargetsModel ==
    <<[family |-> "v4", name |-> "n"], [family |-> "v6", name |-> "n"],
      [family |-> "bad", name |-> ""]>>
PortsModel == <<443>>
NoVersions == <<>>
ProbesModel ==
    <<[name |-> "get", null |-> FALSE, http |-> TRUE, explicit |-> FALSE],
      [name |-> "null", null |-> TRUE, http |-> FALSE, explicit |-> FALSE],
      [name |-> "hp-pjl", null |-> FALSE, http |-> FALSE, explicit |-> TRUE]>>
OnePort(p) == [kind |-> "port", port |-> p]
Span(lo, hi) == [kind |-> "range", lo |-> lo, hi |-> hi]
PortWordsModel ==
    {OnePort(2), OnePort(0), OnePort(26), Span(1, 3), Span(3, 2), Span(2, 25),
     [kind |-> "bad"]}
FileLinesModel == {<<0>>, <<2>>, <<0, 2>>, <<2, 5>>, <<2, 6>>, <<2, 5, 0>>}
Line(b, p, l) == [base |-> b, prefix |-> p, label |-> l]
RangeLinesModel ==
    {Line(b, p, "aws") : b \in {0, 3, 5}, p \in {-1, 1, 2}}
    \cup {Line(6, 0, "tor"), Line(5, 2, "tor"), Line(5, 4, "tor")}
=============================================================================
