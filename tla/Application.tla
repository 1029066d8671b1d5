---------------------------- MODULE Application -----------------------------
(***************************************************************************)
(* The application: the scaffold's page group with the controllers of the  *)
(* framework's own tests, and an API of users who belong to teams.         *)
(***************************************************************************)
EXTENDS Routing

Controller(actions) == [i \in DOMAIN actions |->
    [name |-> actions[i], action |-> "users." \o actions[i]]]

PageMiddleware == <<"session", "inertia">>

Application == Router(<<"database">>, <<
    Static(<<"build">>),
    Group(<<>>, Router(PageMiddleware, <<
        Route("GET", <<>>, "pages.home", <<>>),
        Route("GET", <<"posts">>, "pages.index", <<>>),
        Route("POST", <<"posts">>, "pages.store", <<>>),
        Route("PUT", <<"posts", Id>>, "pages.update", <<>>)>>)),
    Group(<<"api">>, Router(<<>>, <<
        Resource(<<"users">>,
                 Controller(<<"index", "store", "update", "archive", "destroy">>),
                 <<"jwt">>),
        Group(<<"teams">>, Router(<<"optional_jwt">>, <<
            Route("GET", <<>>, "teams.index", <<>>),
            Route("DELETE", <<Id>>, "teams.destroy", <<"jwt">>)>>))>>)),
    Route("GET", <<"detached">>, "pages.home", <<>>)>>)

BothLists == [served |-> Handlers(Application), printed |-> Describe(Application)]
=============================================================================
