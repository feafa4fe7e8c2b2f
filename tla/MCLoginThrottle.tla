--------------------------- MODULE MCLoginThrottle --------------------------
EXTENDS LoginThrottle

\* An IPv4 client in two spellings, 203.0.113.7 and ::ffff:cb00:7107, and an
\* IPv6 host, 2001:db8:1:2::9.
Plain4  == [v |-> 4, quad |-> <<203, 0, 113, 7>>]
Mapped4 == [v |-> 6, head |-> <<>>, tail |-> <<<<65535>>, <<51968>>, <<28935>>>>, gap |-> TRUE]
Host6   == [v |-> 6, head |-> <<<<8193>>, <<3512>>, <<1>>, <<2>>>>, tail |-> <<<<9>>>>, gap |-> TRUE]

Ann   == <<"t1", "ann", "lower">>
ANN   == <<"t1", "ann", "UPPER">>
Other == <<"t2", "ann", "lower">>

Profile(kind, r, source, a, t) ==
    [kind |-> kind, replica |-> r, source |-> source, addr |-> a, target |-> t]
MCProfiles ==
    <<Profile("login", 1, "host4", Plain4, Ann),
      Profile("login", 2, "host4", Mapped4, Other),
      Profile("login", 1, "host6", Host6, ANN),
      Profile("plain", 2, "host4", Mapped4, Ann)>>

MCLimitOf    == [t \in Tiers |-> IF t \in {"account", "address"} THEN 1 ELSE 2]
MCWindowOf   == [t \in Tiers |-> IF t = "route" THEN 1 ELSE 3]
MCBucketKeys ==
    LET keys == FoldLeft(LAMBDA ks, p : ks \o <<KeyText(p, "client"), KeyText(p, "route"),
                                                KeyText(p, "account"), KeyText(p, "address")>>,
                         <<>>, <<1, 2, 3, 4>>)
    IN  FoldLeft(LAMBDA ks, key : IF Contains(ks, key) THEN ks ELSE Append(ks, key), <<>>, keys)

ASSUME MCAttributable == Attributable
=============================================================================
