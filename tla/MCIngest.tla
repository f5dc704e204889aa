------------------------------ MODULE MCIngest -------------------------------
(* Configurations for TLC: variations of one with a feed, a watch and a file   *)
(* that may be disabled.                                                       *)
EXTENDS Ingest, TLC

Cookies1 == "session" :> "1" @@ "theme" :> ""
Cookies2 == "session" :> "2"

\* One directory with a global.toml; the watch may name a profile.
Variant(mode, cats, feedUrl, feedGiven, profile, watchGiven, profileGiven,
        fileWatch, globalWatch, second, cookies) ==
  [mode |-> mode, defaultPoll |-> 10,
   categories |-> cats,
   global |-> "d1" :> [feed |-> "prefix" :> "p", watch |-> globalWatch],
   files |->
     {[dir |-> "d1", enabled |-> TRUE,
       defaults |-> "cookie" :> "jar1", watchDefaults |-> fileWatch,
       profiles |-> {[name |-> "x", given |-> profileGiven]},
       feeds |-> {[id |-> <<"a">>, url |-> feedUrl, given |-> feedGiven]},
       watches |-> {[id |-> <<"w">>, url |-> <<"h2", 1>>, profile |-> profile,
                     given |-> watchGiven]}],
      [dir |-> "d2", enabled |-> second,
       defaults |-> <<>>, watchDefaults |-> <<>>, profiles |-> {},
       feeds |-> {[id |-> <<"p", "a">>, url |-> <<"h1", 3>>, given |-> <<>>]},
       watches |-> {}]},
   cookieFiles |-> "jar1" :> cookies, headerFiles |-> <<>>]

News == [name |-> "news", domains |-> {"h1"}]
Pages == [name |-> "pages", domains |-> {"h2"}]
Pages2 == [name |-> "pages", domains |-> {"h3"}]
All == [name |-> "all", domains |-> {"h1", "h2"}]

Selector == "selector" :> "css"
Jar == "cookie" :> "jar1"
Plain(mode, cats, feedUrl, feedGiven, cookies) ==
  Variant(mode, cats, feedUrl, feedGiven, NoProfile, Jar, <<>>, Selector, <<>>, FALSE, cookies)

\* Configurations to go from one to another: another URL, other categories,
\* another cookie, a prefix of its own, development mode, and three that do not
\* load: a category that is not there, an id taken twice, a cookie file without
\* cookies.
Changing ==
  <<Plain("prod", {News, Pages}, <<"h1", 1>>, <<>>, Cookies1),
    Plain("prod", {All}, <<"h1", 2>>, <<>>, Cookies1),
    Plain("prod", {News, Pages}, <<"h2", 2>>, <<>>, Cookies2),
    Plain("prod", {News, Pages}, <<"h1", 1>>, "prefix" :> "q", Cookies1),
    Plain("dev", {News, Pages}, <<"h1", 1>>, "cookie" :> "", Cookies1),
    Plain("prod", {Pages}, <<"h1", 1>>, "category" :> "news", Cookies1),
    Variant("prod", {All}, <<"h1", 1>>, <<>>, NoProfile, <<>>, <<>>, Selector, Jar, TRUE, Cookies1),
    Plain("prod", {All}, <<"h1", 1>>, <<>>, <<>>)>>

\* Every field in other layers of a watch that names a profile.
Poll1(n) == "poll" :> n
Layered ==
  Variant("prod", {All, Pages2}, <<"h1", 1>>, Poll1(7), "x",
          Poll1(1) @@ ("identity" :> "attr"),
          Poll1(2) @@ ("identity" :> "text") @@ ("attr" :> "id") @@ Selector,
          Poll1(3) @@ ("attr" :> "name") @@ ("category" :> "pages"),
          Poll1(4) @@ ("category" :> "all") @@ ("prefix" :> "q") @@ Jar,
          FALSE, Cookies1)

MCConfiguration == Append(Changing, Layered)
SetCookies == {<<>>, "visit" :> "3" @@ "session" :> "3", "session" :> ""}
=============================================================================
