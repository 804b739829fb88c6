------------------------------- MODULE SignIn -------------------------------
(***************************************************************************)
(* The admin's sign-in: the page's probe (app.js probeAdmin), the login's  *)
(* hops between the deployed site, where Cloudflare Access sits, and a     *)
(* development server on this machine, and the worker's own check of the   *)
(* token (access.ts) against keys that rotate and a cached key set.        *)
(* Access itself and jose's key-set cache are external.                    *)
(***************************************************************************)
EXTENDS Integers, FiniteSets, Sequences

CONSTANTS
    TokenLife,      \* seconds a token lasts
    Cooldown,       \* JWKS_REFETCH_MIN_MS, in seconds
    KeySetLife,     \* JWKS_TTL_MS, in seconds
    MaxClock        \* bound: the clock

\* The key set outlasts the pause after which a key it lacks makes it read again.
ASSUME SignInAssumption ==
    /\ {TokenLife, Cooldown, KeySetLife, MaxClock} \subseteq Nat
    /\ Cooldown <= KeySetLife

VARIABLES
    clock,
    keys,           \* the keys Access signs with, the last one first
    verifier,       \* each server's key set and when it was read, and all those times
    setup,          \* how each server is configured
    cookies,        \* the browser's CF_Authorization cookie on each origin ({}: none)
    browser         \* where the browser is, and the sign-in it is on

signInVars == <<clock, keys, verifier, setup, cookies, browser>>

\* The custom domain Access fronts, the same worker on workers.dev, and a server on this machine.
Origins == {"site", "alias", "dev"}
isLoopbackHost(o) == o = "dev"

\* Pages by the length of their address: "long" is over 2048 characters, "wide" is
\* once it is a parameter of another address.
Pages == {"/", "/queue", "wide", "long"}
Url(o, path, next) == [origin |-> o, path |-> path, next |-> next, token |-> {}]
-----------------------------------------------------------------------------
(* access.ts.                                                              *)

\* External: jose's set, read when it is old, and again for a key it lacks once it has cooled down.
KeySetFor(o, token) ==
    LET v == verifier[o]
        age == clock - v.at
        lacks == token.key \notin v.keys
    IN IF v.at = -1 \/ age > KeySetLife \/ (lacks /\ age >= Cooldown)
       THEN [keys |-> keys, at |-> clock, reads |-> Append(v.reads, clock)] ELSE v

\* AccessVerifier.verify: an expired token is not worth a key lookup.
verify(o, token, v) ==
    /\ clock < token.exp
    /\ token.key \in v.keys

AfterVerify(o, token) == IF clock < token.exp THEN [verifier EXCEPT ![o] = KeySetFor(o, token)] ELSE verifier

loginNext(next) == IF next.of = "none" /\ next.page \in Pages \ {"long"} THEN next.page ELSE "/queue"

\* A dev server's own callback, short enough, and nothing else.
devCallbackNext(next) == next.of = "dev" /\ next.page # "wide"

\* The cookie goes with its token.
accessCookie(token) == {[token |-> token, until |-> token.exp]}
CookieOf(o) == {c.token : c \in {c \in cookies[o] : clock < c.until}}
-----------------------------------------------------------------------------
(* The page.                                                               *)

\* The door that looks at keys, and who gets in: everybody on an open server, nobody where
\* Access is not configured, else whoever brings a token that verifies.
ByToken(o) == setup[o] = "configured" /\ CookieOf(o) # {}
adminIdentity(o, v) == setup[o] = "open" \/ (ByToken(o) /\ \E t \in CookieOf(o) : verify(o, t, v[o]))

\* GET /api/admin/me, and any admin call: 200, or the 401 that takes the controls off.
probeAdmin ==
    /\ browser.at.path = "page"
    /\ LET o == browser.at.origin
       IN /\ verifier' = IF ByToken(o) THEN AfterVerify(o, CHOOSE t \in CookieOf(o) : TRUE) ELSE verifier
          /\ browser' = [browser EXCEPT !.admin = adminIdentity(o, verifier'), !.probed = TRUE]
    /\ UNCHANGED <<clock, keys, setup, cookies>>

\* adminLoginHref, offered where a login is configured.
SignInClicked ==
    /\ browser.at.path = "page" /\ browser.probed /\ ~browser.admin
    /\ setup[browser.at.origin] # "unconfigured"
    /\ browser' = [browser EXCEPT !.at = Url(browser.at.origin, "/admin/login", [page |-> browser.at.next.page, of |-> "none"]),
                                  !.from = [origin |-> browser.at.origin, page |-> browser.at.next.page], !.hops = 1]
    /\ UNCHANGED <<clock, keys, verifier, setup, cookies>>

\* The browser goes to another page, or another origin, and is new there.
Visits(o, page) ==
    /\ browser.at.path \in {"page", "stopped"}
    /\ browser' = [at |-> Url(o, "page", [page |-> page, of |-> "none"]), assertion |-> {}, admin |-> FALSE,
                   probed |-> FALSE, from |-> [origin |-> "none", page |-> "none"], hops |-> 0]
    /\ UNCHANGED <<clock, keys, verifier, setup, cookies>>
-----------------------------------------------------------------------------
(* The login.                                                              *)

GoTo(url) == browser' = [browser EXCEPT !.at = url, !.assertion = {}, !.admin = FALSE, !.probed = FALSE, !.hops = @ + 1]
Land(o, page) == GoTo(Url(o, "page", [page |-> page, of |-> "none"]))

\* External: on the site, Access lets the person through with a fresh token and sets the
\* site's cookie, or keeps them out.
AccessAsks ==
    /\ browser.at.origin = "site" /\ browser.at.path = "/admin/login" /\ browser.assertion = {}
    /\ LET token == [key |-> CHOOSE k \in keys : \A l \in keys : l <= k, exp |-> clock + TokenLife]
       IN \/ /\ browser' = [browser EXCEPT !.assertion = {token}]
             /\ cookies' = [cookies EXCEPT !["site"] = accessCookie(token)]
          \/ /\ browser' = [browser EXCEPT !.at.path = "stopped"]
             /\ UNCHANGED cookies
    /\ UNCHANGED <<clock, keys, verifier, setup>>

\* Mutant: the dev server's callback address forgets the page.
LoginForgetsPage ==
    /\ browser.at.path = "/admin/login"
    /\ LET o == browser.at.origin
           next == browser.at.next
       IN IF browser.assertion = {} /\ isLoopbackHost(o)
          THEN GoTo(Url("site", "/admin/login", [page |-> "/queue", of |-> o]))
          ELSE IF browser.assertion # {} /\ devCallbackNext(next)
          THEN GoTo([Url(next.of, "/admin/callback", [page |-> next.page, of |-> "none"]) EXCEPT !.token = browser.assertion])
          ELSE /\ o = "site" => browser.assertion # {}
               /\ Land(o, loginNext(next))
    /\ UNCHANGED <<clock, keys, verifier, setup, cookies>>

\* GET /admin/login: a dev server sends the browser to the site, the site sends a dev
\* server's callback the token, and everyone else goes to the page.
Login ==
    /\ browser.at.path = "/admin/login"
    /\ LET o == browser.at.origin
           next == browser.at.next
       IN IF browser.assertion = {} /\ isLoopbackHost(o)
          THEN GoTo(Url("site", "/admin/login", [page |-> loginNext(next), of |-> o]))
          ELSE IF browser.assertion # {} /\ devCallbackNext(next)
          THEN GoTo([Url(next.of, "/admin/callback", [page |-> next.page, of |-> "none"]) EXCEPT !.token = browser.assertion])
          ELSE /\ o = "site" => browser.assertion # {}
               /\ Land(o, loginNext(next))
    /\ UNCHANGED <<clock, keys, verifier, setup, cookies>>

\* GET /admin/callback: verified as any admin request, kept as this origin's cookie.
Callback ==
    /\ browser.at.path = "/admin/callback"
    /\ LET o == browser.at.origin
           token == CHOOSE t \in browser.at.token : TRUE
       IN IF setup[o] = "unconfigured"
          THEN browser' = [browser EXCEPT !.at.path = "stopped"] /\ UNCHANGED <<verifier, cookies>>
          ELSE /\ verifier' = AfterVerify(o, token)
               /\ IF verify(o, token, verifier'[o])
                  THEN cookies' = [cookies EXCEPT ![o] = accessCookie(token)] /\ Land(o, loginNext(browser.at.next))
                  ELSE browser' = [browser EXCEPT !.at.path = "stopped"] /\ UNCHANGED cookies
    /\ UNCHANGED <<clock, keys, setup>>

\* GET /admin/logout.
Logout ==
    /\ browser.at.path = "page" /\ browser.admin
    /\ cookies' = [cookies EXCEPT ![browser.at.origin] = {}]
    /\ browser' = [browser EXCEPT !.at.next.page = "/", !.admin = FALSE, !.probed = FALSE, !.hops = 0]
    /\ UNCHANGED <<clock, keys, verifier, setup>>

\* External: Access signs with a new key and publishes the one before it with it.
KeysRotate ==
    /\ keys = {1} /\ keys' = {1, 2}
    /\ UNCHANGED <<clock, verifier, setup, cookies, browser>>

ClockTicks ==
    /\ clock < MaxClock /\ clock' = clock + 1
    /\ UNCHANGED <<keys, verifier, setup, cookies, browser>>

SignInInit ==
    /\ clock = 0 /\ keys = {1}
    /\ verifier = [o \in Origins |-> [keys |-> {}, at |-> -1, reads |-> <<>>]]
    /\ \E dev \in {"configured", "unconfigured", "open"} :
           setup = [o \in Origins |-> IF o = "dev" THEN dev ELSE "configured"]
    /\ cookies = [o \in Origins |-> {}]
    /\ browser = [at |-> Url("dev", "page", [page |-> "/", of |-> "none"]), assertion |-> {}, admin |-> FALSE,
                  probed |-> FALSE, from |-> [origin |-> "none", page |-> "none"], hops |-> 0]

SignInNext ==
    \/ probeAdmin \/ SignInClicked \/ AccessAsks \/ Login \/ Callback \/ Logout
    \/ \E o \in Origins, page \in Pages : Visits(o, page)
    \/ KeysRotate \/ ClockTicks

SignInSpec == SignInInit /\ [][SignInNext]_signInVars
-----------------------------------------------------------------------------
(* Properties.                                                             *)

\* A sign-in ends on the page it was offered on, of the same server, after at most four
\* hops.  (An address too long goes to the queue; one that is too long as a parameter of
\* another goes to the site's queue when a dev server offered it.)  Once there, the page
\* is in admin mode until its token runs out, except on the host Access does not front,
\* and for a token signed with a new key while the key set is too fresh to read again; and
\* unknown keys never make a server read the set more than once in that time.
SignInLands ==
    LET b == browser
        o == b.at.origin
    IN /\ b.hops <= 4
       /\ b.at.path = "page" /\ b.hops > 0 =>
              /\ b.from.page \notin {"wide", "long"} => b.at = Url(b.from.origin, "page", [page |-> b.from.page, of |-> "none"])
              /\ b.from.page = "long" => b.at.next.page = "/queue"
              /\ b.probed /\ ~b.admin /\ o # "alias" =>
                     \/ \E c \in cookies[o] : c.until <= clock
                     \/ \E t \in CookieOf(o) : t.key \notin verifier[o].keys /\ verifier[o].at >= 0
       /\ \A p \in Origins : \A i \in 1 .. Len(verifier[p].reads) - 1 :
              verifier[p].reads[i + 1] - verifier[p].reads[i] >= Cooldown
=============================================================================
