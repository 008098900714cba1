---------------------------- MODULE MCHttpParser ----------------------------
(* The requests of the instance: with and without a body, a length and a      *)
(* type, of a type the parser rejects, and a form with one upload.            *)
EXTENDS HttpParser

Get == [names |-> <<"Other">>, type |-> "none", length |-> 0, body |-> <<>>]

Put == [names |-> <<"Other", "Length">>, type |-> "none", length |-> 12,
        body |-> <<"data", "data">>]

Post == [names |-> <<"Type", "Length", "Other">>, type |-> "json", length |-> 34,
         body |-> <<"data", "data", "data">>]

Empty == [names |-> <<"Type", "Length">>, type |-> "json", length |-> 0, body |-> <<>>]

Rejected == [names |-> <<"Length", "Type">>, type |-> "unknown", length |-> 12,
             body |-> <<"data">>]

Form == [names |-> <<"Type", "Length">>, type |-> "multipart", length |-> 24,
         part |-> <<"Other", "Type">>, data |-> <<"data", "cr", "lf">>,
         body |-> FormBody(<<"Other", "Type">>, <<"data", "cr", "lf">>)]

AllRequests == {Get, Put, Post, Empty, Rejected, Form}
=============================================================================
