------------------------------ MODULE ApiDocument -----------------------------
(***************************************************************************)
(* The API document the server hands out under /swagger: the operations of *)
(* docTemplate in docs/docs.go, each with the security it asks for, the    *)
(* definition its body follows, and the statuses it may be answered with.  *)
(* Operations bear the names of their handlers; descriptions, tags, and    *)
(* the types of parameters and members are left out.                       *)
(*                                                                         *)
(* security is a list of alternatives, each a set of schemes that are      *)
(* wanted together.                                                        *)
(***************************************************************************)

(* The headers that carry the two schemes. *)
SecurityDefinitions == [ApiKeyAuth |-> "X-API-Key", JwtAuth |-> "Authorization"]

(* The members the definition of a body requires. *)
Required ==
    [CreateBook |-> {"title", "author"},
     UpdateBook |-> {},
     LoginUser  |-> {"username", "password"}]

Nobody == << >>
KeyAlone == <<{"ApiKeyAuth"}>>
KeyOrToken == <<{"ApiKeyAuth"}, {"JwtAuth"}>>

Operation(security, body, responses) ==
    [security |-> security, body |-> body, responses |-> responses]

Healthcheck     == Operation(Nobody,     "none",       {200})
FindBooks       == Operation(KeyAlone,   "none",       {200})
CreateBook      == Operation(KeyOrToken, "CreateBook", {201, 400, 401})
FindBook        == Operation(KeyAlone,   "none",       {200, 404})
UpdateBook      == Operation(KeyAlone,   "UpdateBook", {200, 400, 404})
DeleteBook      == Operation(KeyAlone,   "none",       {204, 404})
LoginHandler    == Operation(KeyAlone,   "LoginUser",  {200, 400, 401, 500})
RegisterHandler == Operation(KeyAlone,   "LoginUser",  {201, 400, 500})

Paths ==
    [Healthcheck     |-> Healthcheck,
     FindBooks       |-> FindBooks,
     CreateBook      |-> CreateBook,
     FindBook        |-> FindBook,
     UpdateBook      |-> UpdateBook,
     DeleteBook      |-> DeleteBook,
     LoginHandler    |-> LoginHandler,
     RegisterHandler |-> RegisterHandler]

Operations == DOMAIN Paths
===============================================================================
