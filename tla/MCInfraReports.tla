--------------------------- MODULE MCInfraReports ---------------------------
EXTENDS InfraReports, TLC

\* A domain that gains a host and loses STARTTLS, and then loses the host again.
Mx(host) == [host |-> host, port |-> 25, service |-> "smtp"]
Check(created, endpoints, rules, score, hosts) ==
    [created |-> created, endpoints |-> endpoints, rules |-> rules, score |-> score, hosts |-> hosts]
Checks == [s1 |-> Check(1, {Mx("a")}, {"WEAK_CIPHER"}, 70, {}),
           s2 |-> Check(2, {Mx("a"), Mx("b")}, {"WEAK_CIPHER", "STARTTLS_MISSING"}, 50, {"host a"}),
           s3 |-> Check(3, {Mx("a")}, {"WEAK_CIPHER", "OPEN_RELAY"}, 50, {"host a"})]
Severities == [WEAK_CIPHER |-> "low", OPEN_RELAY |-> "high", STARTTLS_MISSING |-> "high"]

\* Which request is which makes no difference.
AnyRequest == Permutations(Requests)
=============================================================================
