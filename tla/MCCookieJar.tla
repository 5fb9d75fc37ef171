---------------------------- MODULE MCCookieJar -----------------------------
(***************************************************************************)
(* The hosts and headers with which CookieJar is checked.                  *)
(***************************************************************************)
EXTENDS CookieJar

Foo == <<"foo", "com">>
Www == <<"www", "foo", "com">>
Address == <<"10.0.0.1">>
Addresses == {Address}
TwoLetters == {"co"}
Com == {"com"}

To(host, port, path, tls) == [host |-> host, port |-> port, path |-> path, secflag |-> tls]
WwwDeep == To(Www, 80, <<"/", "a", "/", "f">>, FALSE)
WwwRoot == To(Www, 443, <<"/", "f">>, TRUE)
FooDeep == To(Foo, 8080, <<"/", "a", "/", "f">>, FALSE)
Elsewhere == To(Address, 80, <<"/", "f">>, FALSE)
Asked == {WwwDeep, WwwRoot, FooDeep, Elsewhere}

Plain == [attr |-> 1, value |-> 1, domain |-> None, path |-> None,
          expires |-> -1, max_age |-> -1, secure |-> FALSE]
OfFoo == [Plain EXCEPT !.domain = Foo, !.path = <<"/">>]
BelowA == [OfFoo EXCEPT !.path = <<"/", "a", "/">>]
Answer(r, sc) == [r |-> r, sc |-> sc]

\* Cookies of a host and of a domain, with the same name and with the same name and
\* value; of a session, with a date and with an age; two that discard others, one of
\* them because its domain is refused.
Received ==
    {Answer(WwwDeep, Plain), Answer(FooDeep, Plain), Answer(Elsewhere, Plain),
     Answer(WwwRoot, [OfFoo EXCEPT !.value = 2]),
     Answer(FooDeep, [OfFoo EXCEPT !.expires = 2]),
     Answer(WwwRoot, [OfFoo EXCEPT !.attr = 2, !.secure = TRUE, !.max_age = 1]),
     Answer(WwwDeep, BelowA), Answer(FooDeep, [BelowA EXCEPT !.max_age = 0]),
     Answer(Elsewhere, OfFoo)}
=============================================================================
