---------------------------- MODULE MCMiddlewares ----------------------------
(* Routes with and without parameters, two of which match the same target,   *)
(* and the targets around them.                                              *)
EXTENDS Middlewares

Get(path) == [method |-> "get", path |-> path]

Root    == <<"/">>
Users   == <<"/", "user", "s">>
NewUser == Users \o <<"/", "new">>
User    == Users \o <<"/", ":", "id">>
Edit    == Users \o <<"/", ":", "id", "/", "edit">>
Page    == <<"/", "page", "/", ":", "nr", "/", ":", "line">>

(* Paths that matching gets wrong: the second parameter is separated from    *)
(* the first, and the first has the name of a literal segment, where the     *)
(* name is found; a value that is the name of the second parameter then      *)
(* makes replace() throw.                                                    *)
Apart       == <<"/", "log", "/", ":", "day", "/", "to", "/", ":", "end">>
Clash(word) == <<"/", word, "/", ":", word, "/", ":", "key">>

AppRoutes ==
  <<Get(NewUser), Get(User), Get(Edit), Get(Page), Get(Root), Get(Apart),
    Get(Clash("team")), Get(Clash("tag"))>>

AppRouters == <<5, 1, 2, 3, 6, 4, 7, 8>>

AppAuthorized == <<8, 2, 1, 3>>

FullChain == <<"cors", "auth", "routing">>

AppTargets ==
  {Root, NewUser, Users, Users \o <<"/">>, Users \o <<"/", "7">>,
   Users \o <<"/", "7", "/", "edit">>, <<"/", "page", "/", "7", "/", "new">>,
   <<"/", "page", "/", "/", "7">>, <<"/", "page", "/", "7">>,
   Users \o <<"/", "7", "/">>, <<"user">>, <<>>,
   <<"/", "log", "/", "7", "/", "to", "/", "8">>,
   <<"/", "team", "/", "key", "/", "7">>, <<"/", "tag", "/", "key", "/", "7">>}
=============================================================================
