--------------------------------- MODULE ShortUrl ---------------------------------
(***************************************************************************)
(* Short links (shorturl/shorturl.go): the bolt bucket "shortURLs" and the *)
(* handlers behind POST /url and GET /url/:shortURL.  A key is found free  *)
(* in one transaction and written in another.  With lotus a program sends  *)
(* the POST on to the owner of the links and puts its own address before   *)
(* the answer, which already is a whole link.                              *)
(***************************************************************************)
EXTENDS Naturals

CONSTANTS
    Makers,     \* the goroutines of POST requests
    Remote,     \* those that another program sends on
    Urls,       \* the links to shorten
    Keys,       \* short names
    HashedKey,  \* generateHashedString: the name a link gets first
    NoUrl,      \* no value
    MaxLinks    \* a bound on links made

ASSUME UrlsAssumption ==
    /\ Remote \subseteq Makers /\ MaxLinks \in Nat
    /\ HashedKey \in [Urls -> Keys] /\ NoUrl \notin Urls

VARIABLES
    urls,       \* the bucket
    maker,      \* where each goroutine is, with its link and the name it tries
    made,       \* links made: a bound
    given,      \* history: <<key, url>> of the links given to people
    led,        \* history: <<key, url>> where links led people
    disputed    \* history: the names two goroutines found free at a time

urlVars == <<urls, maker, made, given, led, disputed>>

NoMaker == [at |-> "idle", url |-> NoUrl, key |-> NoUrl]

UrlInit ==
    /\ urls = [k \in Keys |-> NoUrl]
    /\ maker = [v \in Makers |-> NoMaker]
    /\ made = 0 /\ given = {} /\ led = {} /\ disputed = {}
----------------------------------------------------------------------------------
\* A slip: the random name is taken without a look.
Check_Once(v) ==
    /\ maker[v].at = "check"
    /\ \E k \in Keys : maker' = [maker EXCEPT ![v].at = "store",
            ![v].key = IF urls[maker[v].key] = NoUrl THEN maker[v].key ELSE k]
    /\ UNCHANGED <<urls, made, given, led, disputed>>
----------------------------------------------------------------------------------
\* CreateShortURLHandler, for a link it accepts; with lotus the program sends
\* it on (GenerateShortURL, first branch) and the owner does the same.
Create(v, u) ==
    /\ maker[v].at = "idle" /\ made < MaxLinks
    /\ made' = made + 1
    /\ maker' = [maker EXCEPT ![v] = [at |-> "check", url |-> u, key |-> HashedKey[u]]]
    /\ UNCHANGED <<urls, given, led, disputed>>

\* existsInDB: another, random name is tried as long as the name is in use -
\* by the same link too.
Check(v) ==
    /\ maker[v].at = "check"
    /\ IF urls[maker[v].key] = NoUrl
       THEN maker' = [maker EXCEPT ![v].at = "store"]
       ELSE \E k \in Keys : maker' = [maker EXCEPT ![v].key = k]
    /\ UNCHANGED <<urls, made, given, led, disputed>>

\* storeURL, and the answer.  What a lotus program answers leads nowhere: two
\* addresses, one before the other.
Store(v) ==
    /\ maker[v].at = "store"
    /\ LET k == maker[v].key
           others == {w \in Makers \ {v} : maker[w].at = "store" /\ maker[w].key = k}
       IN  /\ urls' = [urls EXCEPT ![k] = maker[v].url]
           /\ given' = IF v \in Remote THEN given ELSE given \cup {<<k, maker[v].url>>}
           /\ disputed' = IF others = {} THEN disputed ELSE disputed \cup {k}
    /\ maker' = [maker EXCEPT ![v] = NoMaker]
    /\ UNCHANGED <<made, led>>

\* The request is given up, or its database fails: an empty name is answered.
CreateFails(v) ==
    /\ maker[v].at # "idle"
    /\ maker' = [maker EXCEPT ![v] = NoMaker]
    /\ UNCHANGED <<urls, made, given, led, disputed>>

\* RedirectFromShortURLHandler, for a name that is there.
Redirect(k) ==
    /\ urls[k] # NoUrl
    /\ led' = led \cup {<<k, urls[k]>>}
    /\ UNCHANGED <<urls, maker, made, given, disputed>>

\* The program ends and starts again; init opens the file that is there.
UrlRestart ==
    /\ maker' = [v \in Makers |-> NoMaker]
    /\ UNCHANGED <<urls, made, given, led, disputed>>

UrlNext ==
    \/ \E v \in Makers : (\E u \in Urls : Create(v, u)) \/ Check(v) \/ Store(v) \/ CreateFails(v)
    \/ \E k \in Keys : Redirect(k)
    \/ UrlRestart
----------------------------------------------------------------------------------
\* A short link leads where it was made to lead and nowhere else, for ever (the
\* redirect is a permanent one, which browsers keep), unless two goroutines
\* found its name free at the same time.
LinksLead ==
    \A g \in given : g[1] \notin disputed =>
        urls[g[1]] = g[2] /\ \A l \in led : l[1] = g[1] => l[2] = g[2]
==================================================================================
