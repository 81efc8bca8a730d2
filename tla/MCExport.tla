------------------------------ MODULE MCExport ------------------------------
\* Export on a small instance: two sources, without and with an instance.
EXTENDS Export

Plain    == <<[component |-> <<"a">>, instance |-> <<>>],
              [component |-> <<"b">>, instance |-> <<"b", "/", "/", "b">>]>>

\* "a-b" without an instance, and instance "b" of "a".
Colliding == <<[component |-> <<"a", "-", "b">>, instance |-> <<>>],
               [component |-> <<"a">>, instance |-> <<"b">>]>>

Letters == {"a", "b", "-"}

All == [since |-> 0, until |-> 0, components |-> {}, exclude |-> {}]
AllFilter == {All}
ThreeFilters == {All, [All EXCEPT !.until = 1, !.exclude = {"private"}],
                 [All EXCEPT !.since = 2, !.components = {<<"a">>}]}
=============================================================================
