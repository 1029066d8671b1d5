------------------------------- MODULE Routing -------------------------------
(***************************************************************************)
(* The router (crates/luxid-core/src/router.rs): entries nested in groups, *)
(* the table `luxid routes` prints, and the flat list the server is built  *)
(* from.                                                                   *)
(*                                                                         *)
(* A path is the sequence of its segments, so that joining a prefix and a  *)
(* path, which strips the slashes between them, is concatenation and the   *)
(* root is the empty sequence.                                             *)
(***************************************************************************)
EXTENDS Matching, SequencesExt

Route(method, path, action, middleware) ==
    [kind |-> "route", method |-> method, path |-> path, action |-> action,
     middleware |-> middleware]

Router(middleware, entries) == [middleware |-> middleware, entries |-> entries]

Group(prefix, router) == [kind |-> "group", prefix |-> prefix, router |-> router]

Static(path) == [kind |-> "static", path |-> path]

\* Where a controller's resource actions are registered.
Registrations ==
    [index |-> <<"GET", <<>>>>, store |-> <<"POST", <<>>>>,
     show |-> <<"GET", <<Id>>>>, update |-> <<"PUT", <<Id>>>>,
     destroy |-> <<"DELETE", <<Id>>>>]

\* `resource`: one group, with a route for each action of the controller that
\* is one of the five, in the order the controller declares them.
Resource(path, actions, middleware) ==
    LET known == SelectSeq(actions, LAMBDA a : a.name \in DOMAIN Registrations)
        RouteOf(a) == Route(Registrations[a.name][1], Registrations[a.name][2],
                            a.action, <<>>)
    IN Group(path, Router(middleware, [i \in DOMAIN known |-> RouteOf(known[i])]))

Join(prefix, path) == prefix \o path

\* Mutant: `describe` counts only the groups, not the router's own middleware.
DescribeGroups(inherited, router) == inherited

\* What a nested router adds to the middleware around its routes.
Inherits(inherited, router) == inherited + Len(router.middleware)

RECURSIVE DescribeInto(_, _, _)
DescribeInto(router, prefix, inherited) ==
    LET Row(e) ==
          CASE e.kind = "route" ->
                 <<[method |-> e.method, path |-> Join(prefix, e.path),
                    action |-> e.action,
                    middleware |-> inherited + Len(e.middleware)]>>
            [] e.kind = "group" ->
                 DescribeInto(e.router, Join(prefix, e.prefix),
                              Inherits(inherited, e.router))
            [] e.kind = "static" ->
                 <<[method |-> "GET", path |-> Append(Join(prefix, e.path), Rest),
                    action |-> "static files", middleware |-> 0]>>
    IN FlattenSeq([i \in DOMAIN router.entries |-> Row(router.entries[i])])

Describe(router) == DescribeInto(router, <<>>, Inherits(0, router))

Stack(inherited, router) == inherited \o router.middleware

RECURSIVE FlattenInto(_, _, _)
FlattenInto(router, prefix, inherited) ==
    LET stack == Stack(inherited, router)
        Flat(e) ==
          CASE e.kind = "route" ->
                 <<[kind |-> "route", method |-> e.method,
                    path |-> Join(prefix, e.path), action |-> e.action,
                    middleware |-> stack \o e.middleware]>>
            [] e.kind = "group" ->
                 FlattenInto(e.router, Join(prefix, e.prefix), stack)
            [] e.kind = "static" ->
                 <<[kind |-> "static", method |-> "GET",
                    path |-> Append(Join(prefix, e.path), Rest),
                    action |-> "static files", middleware |-> <<>>]>>
    IN FlattenSeq([i \in DOMAIN router.entries |-> Flat(router.entries[i])])

\* The server's handlers: every static mount before every route.
Handlers(router) ==
    LET flat == FlattenInto(router, <<>>, <<>>)
        Are(kind) == SelectSeq(flat, LAMBDA h : h.kind = kind)
    IN Are("static") \o Are("route")
=============================================================================
