--------------------------- MODULE MCAddressLists ---------------------------
(* Instances of AddressLists: a host with some addresses, one with another,  *)
(* and one that is written as an address.                                    *)
EXTENDS AddressLists

A(family, n) == [family |-> family, number |-> n]
MCAnswers ==
    [h \in Hosts |->
        CASE h = "many" -> {<<A("IPv6", 1), A("IPv4", 2), A("IPv6", 3)>>, <<A("IPv4", 4), A("IPv4", 2)>>}
          [] h = "one"  -> {<<A("IPv4", 2)>>}
          [] h = "num"  -> {<<A("IPv4", 5)>>}]
MCOpts ==
    {o \in [dns_cache : BOOLEAN, ipv6 : BOOLEAN, prefer_family : {"none", "IPv4", "IPv6"},
            bind_address : {"none", "one", "many"}] : o.ipv6 \/ o.prefer_family = "none"}
=============================================================================
