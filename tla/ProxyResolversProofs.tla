------------------------ MODULE ProxyResolversProofs ------------------------
(***************************************************************************)
(* The GNOME proxy resolver's cache and the answers of all resolvers, for  *)
(* any number of lookups and of changes of the settings: although          *)
(* update_settings() reads one setting after the other while the user      *)
(* changes them, no mixture of old and new settings stays; and whatever is *)
(* answered is of use to an application.                                   *)
(***************************************************************************)
EXTENDS ProxyResolvers, FiniteSetTheorems, WellFoundedInduction, TLAPS

-----------------------------------------------------------------------------
(***************************************************************************)
(* The inductive invariant.  The lock is held by a lookup of the GNOME     *)
(* resolver, and whoever updates the cache holds it.                       *)
(***************************************************************************)
LookupFields ==
  {"pc", "via", "async", "scheme", "ignored", "alone", "script", "ran", "http", "answer"}
Shapes ==
  /\ DOMAIN lookup = Lookups
  /\ \A l \in Lookups : DOMAIN lookup[l] = LookupFields
  /\ DOMAIN cache = {"default", "uri", "ignore", "version"}

Updating == {"http", "https", "socks", "ftp"}
OneHolds ==
  /\ lock # "none" =>
       lock \in Lookups /\ lookup[lock].via = "gnome" /\ lookup[lock].pc \in Updating \cup {"resolve"}
  /\ \A l \in Lookups : lookup[l].pc \in Updating => lock = l

\* What the settings mean, as far as they have been read when the update is at stage.
Stage == IF lock = "none" THEN "resolve" ELSE lookup[lock].pc
HttpRead == IF settings.http = "valid" THEN "http" ELSE "none"
HttpsRead ==
  IF settings.https = "valid" THEN "https"
  ELSE IF settings.https = "unset" THEN HttpRead ELSE "none"
DefaultRead == IF HttpRead # "none" /\ settings.same THEN HttpRead ELSE "none"
Read(stage) ==
  CASE stage = "http" -> settings.mode = "manual" /\ cache.default = "none" /\ cache.uri = NoUris
    [] stage = "https" ->
         /\ settings.mode = "manual" /\ lookup[lock].http = HttpRead
         /\ cache.default = DefaultRead /\ cache.uri = [NoUris EXCEPT !["http"] = HttpRead]
    [] stage = "socks" ->
         /\ settings.mode = "manual" /\ cache.default = DefaultRead
         /\ cache.uri = [NoUris EXCEPT !["http"] = HttpRead, !["https"] = HttpsRead]
    [] stage = "ftp" ->
         /\ settings.mode = "manual" /\ cache.default = Derived.default
         /\ cache.uri = [NoUris EXCEPT !["http"] = HttpRead, !["https"] = HttpsRead]
    [] OTHER -> cache.default = Derived.default /\ cache.uri = Derived.uri

\* No change is ahead that the resolver does not know of.
Told == ~need_update /\ ~signals
UpToDate == Told => Read(Stage) /\ cache.ignore = settings.ignore

CacheInv == Shapes /\ OneHolds /\ UpToDate

-----------------------------------------------------------------------------
(***************************************************************************)
(* Each step keeps it.                                                     *)
(***************************************************************************)
\* A step of one lookup that neither has the lock nor takes it.
LEMMA Elsewhere ==
  ASSUME CacheInv, NEW l \in Lookups, lookup[l].pc \notin Updating, l # lock,
         DOMAIN lookup' = Lookups,
         \A k \in Lookups : DOMAIN (lookup'[k]) = LookupFields,
         lookup'[l].pc \notin Updating,
         \A k \in Lookups \ {l} : /\ lookup'[k].pc = lookup[k].pc
                                  /\ lookup'[k].via = lookup[k].via
                                  /\ lookup'[k].http = lookup[k].http,
         UNCHANGED <<settings, signals, need_update, cache, lock>>
  PROVE  CacheInv'
<1>1. Shapes'
  BY DEF CacheInv, Shapes
<1>2. OneHolds'
  BY DEF CacheInv, OneHolds
<1>3. UpToDate'
  <2>1. Stage' = Stage /\ (lock # "none" => lookup'[lock].http = lookup[lock].http)
    BY DEF CacheInv, OneHolds, Stage
  <2>2. Derived' = Derived /\ HttpRead' = HttpRead /\ HttpsRead' = HttpsRead /\ DefaultRead' = DefaultRead
    BY DEF Derived, HttpRead, HttpsRead, DefaultRead
  <2>3. Read(Stage)' <=> Read(Stage)
    BY <2>1, <2>2 DEF Read, Stage
  <2> QED BY <2>3 DEF CacheInv, UpToDate, Told
<1> QED BY <1>1, <1>2, <1>3 DEF CacheInv

LEMMA GnomeLookupStays ==
  ASSUME CacheInv, NEW l \in Lookups, GnomeLookup(l)
  PROVE  CacheInv'
<1>1. lookup[l].pc = "resolve" /\ lookup[l].via = "gnome" /\ lock = "none" /\ lock' = l
  BY DEF GnomeLookup, UpdateSettings
<1>2. l # "none" /\ UNCHANGED <<settings, signals>>
  BY ProxyBounds DEF GnomeLookup, gnomeRest
<1>3. CASE need_update
  <2>1. cache' = [default |-> IF settings.mode = "auto" THEN "use-proxy" ELSE "none",
                  uri |-> NoUris, ignore |-> settings.ignore, version |-> version]
    BY <1>3 DEF GnomeLookup, UpdateSettings
  <2>2. lookup' = [lookup EXCEPT ![l].pc = IF settings.mode = "manual" THEN "http" ELSE "resolve"]
    BY <1>3 DEF GnomeLookup, UpdateSettings
  <2>3. /\ DOMAIN lookup' = Lookups /\ \A k \in Lookups : DOMAIN (lookup'[k]) = LookupFields
        /\ \A k \in Lookups \ {l} : lookup'[k] = lookup[k]
        /\ lookup'[l].via = "gnome"
        /\ lookup'[l].pc = IF settings.mode = "manual" THEN "http" ELSE "resolve"
    BY <1>1, <2>2 DEF CacheInv, Shapes, LookupFields
  <2>4. Shapes'
    BY <2>1, <2>3 DEF Shapes
  <2>5. OneHolds'
    BY <1>1, <1>2, <2>3, ProxyBounds DEF CacheInv, OneHolds, Updating
  <2>6. Stage' = IF settings.mode = "manual" THEN "http" ELSE "resolve"
    BY <1>1, <1>2, <2>3 DEF Stage
  <2>7. CASE settings.mode = "manual"
    <3>1. Stage' = "http" /\ cache'.default = "none" /\ cache'.uri = NoUris
          /\ cache'.ignore = settings.ignore
      BY <2>1, <2>6, <2>7
    <3> QED BY <1>2, <2>4, <2>5, <2>7, <3>1 DEF CacheInv, UpToDate, Read
  <2>8. CASE settings.mode # "manual"
    <3>1. Stage' = "resolve" /\ cache'.uri = NoUris /\ cache'.ignore = settings.ignore
          /\ cache'.default = IF settings.mode = "auto" THEN "use-proxy" ELSE "none"
      BY <2>1, <2>6, <2>8
    <3>2. Derived.default = (IF settings.mode = "auto" THEN "use-proxy" ELSE "none")
          /\ Derived.uri = [NoUris EXCEPT !["http"] = "none", !["https"] = "none", !["ftp"] = "none"]
      BY <2>8 DEF Derived
    <3>3. NoUris = [NoUris EXCEPT !["http"] = "none", !["https"] = "none", !["ftp"] = "none"]
      BY DEF NoUris
    <3>4. Derived' = Derived
      BY <1>2 DEF Derived
    <3> QED BY <1>2, <2>4, <2>5, <3>1, <3>2, <3>3, <3>4 DEF CacheInv, UpToDate, Read
  <2> QED BY <2>7, <2>8
<1>4. CASE ~need_update
  <2>1. UNCHANGED <<need_update, cache, lookup>>
    BY <1>4 DEF GnomeLookup
  <2>2. Shapes' /\ OneHolds'
    BY <1>1, <1>2, <2>1, ProxyBounds DEF CacheInv, Shapes, OneHolds, Updating
  <2>3. Stage = "resolve" /\ Stage' = "resolve"
    BY <1>1, <1>2, <2>1 DEF Stage
  <2>4. UpToDate'
    BY <1>2, <2>1, <2>3 DEF CacheInv, UpToDate, Told, Read, Derived
  <2> QED BY <2>2, <2>4 DEF CacheInv
<1> QED BY <1>3, <1>4

\* The settings of the children, read while nothing has changed since.
LEMMA UpdatesStay ==
  ASSUME CacheInv, NEW l \in Lookups,
         UpdateHttp(l) \/ UpdateHttps(l) \/ UpdateSocks(l) \/ UpdateFtp(l)
  PROVE  CacheInv'
<1>1. /\ lookup[l].pc \in Updating
      /\ UNCHANGED <<settings, signals, need_update, lock>>
  BY DEF UpdateHttp, UpdateHttps, UpdateSocks, UpdateFtp, Updating, gnomeRest
<1>2. l = lock /\ lock # "none" /\ lookup[l].via = "gnome" /\ Stage = lookup[l].pc
  BY <1>1, ProxyBounds DEF CacheInv, OneHolds, Stage
<1>3. ASSUME NEW next \in Updating \cup {"resolve"}, NEW http,
             \/ lookup' = [lookup EXCEPT ![l].pc = next]
             \/ lookup' = [lookup EXCEPT ![l].pc = next, ![l].http = http],
             DOMAIN cache' = DOMAIN cache,
             UpToDate'
      PROVE  CacheInv'
  <2>1. /\ DOMAIN lookup' = Lookups /\ \A k \in Lookups : DOMAIN (lookup'[k]) = LookupFields
        /\ \A k \in Lookups \ {l} : lookup'[k] = lookup[k]
        /\ lookup'[l].via = lookup[l].via /\ lookup'[l].pc = next
    BY <1>3 DEF CacheInv, Shapes, LookupFields
  <2>2. Shapes'
    BY <1>3, <2>1 DEF CacheInv, Shapes
  <2>3. OneHolds'
    BY <1>1, <1>2, <2>1 DEF CacheInv, OneHolds
  <2> QED BY <1>3, <2>2, <2>3 DEF CacheInv
<1>4. /\ HttpRead' = HttpRead /\ HttpsRead' = HttpsRead /\ DefaultRead' = DefaultRead
      /\ Derived' = Derived /\ Told' = Told
  BY <1>1 DEF HttpRead, HttpsRead, DefaultRead, Derived, Told
<1>5. DOMAIN lookup = Lookups /\ DOMAIN lookup[l] = LookupFields
      /\ DOMAIN cache = {"default", "uri", "ignore", "version"}
  BY DEF CacheInv, Shapes
<1>6. Told => Read(Stage) /\ cache.ignore = settings.ignore
  BY DEF CacheInv, UpToDate
<1>7. CASE UpdateHttp(l)
  <2>1. /\ lookup[l].pc = "http"
        /\ cache' = [cache EXCEPT !.uri["http"] = HttpRead,
                       !.default = IF HttpRead # "none" /\ settings.same THEN HttpRead ELSE @]
        /\ lookup' = [lookup EXCEPT ![l].pc = "https", ![l].http = HttpRead]
    BY <1>7 DEF UpdateHttp, HttpRead
  <2>2. /\ cache'.uri = [cache.uri EXCEPT !["http"] = HttpRead]
        /\ cache'.default = IF HttpRead # "none" /\ settings.same THEN HttpRead ELSE cache.default
        /\ cache'.ignore = cache.ignore /\ DOMAIN cache' = DOMAIN cache
        /\ lookup'[l].pc = "https" /\ lookup'[l].http = HttpRead
    BY <1>5, <2>1 DEF LookupFields
  <2>3. Stage = "http" /\ Stage' = "https"
    BY <1>1, <1>2, <2>1, <2>2 DEF Stage
  <2>4. UpToDate'
    BY <1>1, <1>2, <1>4, <1>6, <2>2, <2>3 DEF UpToDate, Read, DefaultRead
  <2> QED BY <1>3, <2>1, <2>2, <2>4 DEF Updating
<1>8. CASE UpdateHttps(l)
  <2>1. /\ lookup[l].pc = "https"
        /\ cache' = [cache EXCEPT !.uri["https"] =
                       IF settings.https = "valid" THEN "https"
                       ELSE IF settings.https = "unset" THEN lookup[l].http ELSE "none"]
        /\ lookup' = [lookup EXCEPT ![l].pc = "socks"]
    BY <1>8 DEF UpdateHttps
  <2>2. /\ cache'.uri = [cache.uri EXCEPT !["https"] =
                           IF settings.https = "valid" THEN "https"
                           ELSE IF settings.https = "unset" THEN lookup[l].http ELSE "none"]
        /\ cache'.default = cache.default
        /\ cache'.ignore = cache.ignore /\ DOMAIN cache' = DOMAIN cache
        /\ lookup'[l].pc = "socks"
    BY <1>5, <2>1 DEF LookupFields
  <2>3. Stage = "https" /\ Stage' = "socks"
    BY <1>1, <1>2, <2>1, <2>2 DEF Stage
  <2>4. UpToDate'
    BY <1>1, <1>2, <1>4, <1>6, <2>2, <2>3 DEF UpToDate, Read, HttpsRead
  <2> QED BY <1>3, <2>1, <2>2, <2>4 DEF Updating
<1>9. CASE UpdateSocks(l)
  <2>1. /\ lookup[l].pc = "socks"
        /\ cache' = [cache EXCEPT !.default = IF settings.socks = "valid" THEN "socks" ELSE @]
        /\ lookup' = [lookup EXCEPT ![l].pc = "ftp"]
    BY <1>9 DEF UpdateSocks
  <2>2. /\ cache'.uri = cache.uri
        /\ cache'.default = IF settings.socks = "valid" THEN "socks" ELSE cache.default
        /\ cache'.ignore = cache.ignore /\ DOMAIN cache' = DOMAIN cache
        /\ lookup'[l].pc = "ftp"
    BY <1>5, <2>1 DEF LookupFields
  <2>3. Stage = "socks" /\ Stage' = "ftp"
    BY <1>1, <1>2, <2>1, <2>2 DEF Stage
  <2>4. ASSUME settings.mode = "manual"
        PROVE  Derived.default = IF settings.socks = "valid" THEN "socks" ELSE DefaultRead
    <3>1. CASE settings.socks = "valid"
      BY <2>4, <3>1 DEF Derived
    <3>2. CASE settings.socks # "valid" /\ settings.http = "valid" /\ settings.same
      BY <2>4, <3>2 DEF Derived, DefaultRead, HttpRead
    <3>3. CASE settings.socks # "valid" /\ ~(settings.http = "valid" /\ settings.same)
      BY <2>4, <3>3 DEF Derived, DefaultRead, HttpRead
    <3> QED BY <3>1, <3>2, <3>3
  <2>5. UpToDate'
    BY <1>1, <1>4, <1>6, <2>2, <2>3, <2>4 DEF UpToDate, Read
  <2> QED BY <1>3, <2>1, <2>2, <2>5 DEF Updating
<1>10. CASE UpdateFtp(l)
  <2>1. /\ lookup[l].pc = "ftp"
        /\ cache' = [cache EXCEPT !.uri["ftp"] = IF settings.ftp = "valid" THEN "ftp" ELSE "none"]
        /\ lookup' = [lookup EXCEPT ![l].pc = "resolve"]
    BY <1>10 DEF UpdateFtp
  <2>2. /\ cache'.uri = [cache.uri EXCEPT !["ftp"] = IF settings.ftp = "valid" THEN "ftp" ELSE "none"]
        /\ cache'.default = cache.default
        /\ cache'.ignore = cache.ignore /\ DOMAIN cache' = DOMAIN cache
        /\ lookup'[l].pc = "resolve"
    BY <1>5, <2>1 DEF LookupFields
  <2>3. Stage = "ftp" /\ Stage' = "resolve"
    BY <1>1, <1>2, <2>1, <2>2 DEF Stage
  <2>4. settings.mode = "manual" =>
          Derived.uri = [NoUris EXCEPT !["http"] = HttpRead, !["https"] = HttpsRead,
                                       !["ftp"] = IF settings.ftp = "valid" THEN "ftp" ELSE "none"]
    BY DEF Derived, HttpsRead, HttpRead
  <2>5. ASSUME Told
        PROVE  cache'.uri = Derived.uri /\ cache'.default = Derived.default
    <3>1. /\ settings.mode = "manual" /\ cache.default = Derived.default
          /\ cache.uri = [NoUris EXCEPT !["http"] = HttpRead, !["https"] = HttpsRead]
      BY <1>6, <2>3, <2>5 DEF Read
    <3>2. cache'.uri = [NoUris EXCEPT !["http"] = HttpRead, !["https"] = HttpsRead,
                                      !["ftp"] = IF settings.ftp = "valid" THEN "ftp" ELSE "none"]
      BY <2>2, <3>1
    <3> QED BY <2>2, <2>4, <3>1, <3>2
  <2>6. UpToDate'
    BY <1>1, <1>4, <1>6, <2>2, <2>3, <2>5 DEF UpToDate, Read
  <2> QED BY <1>3, <2>1, <2>2, <2>6 DEF Updating
<1> QED BY <1>7, <1>8, <1>9, <1>10

LEMMA GnomeResolveStays ==
  ASSUME CacheInv, NEW l \in Lookups, GnomeResolve(l)
  PROVE  CacheInv'
<1>1. /\ lookup[l].pc = "resolve" /\ lock = l /\ lock' = "none"
      /\ UNCHANGED <<settings, signals, need_update, cache>>
  BY DEF GnomeResolve, gnomeRest
<1>2. \/ lookup' = [lookup EXCEPT ![l].pc = "pac", ![l].script = cache.version]
      \/ lookup' = [lookup EXCEPT ![l].pc = "done", ![l].answer = <<SimpleLookup(cache, l)>>]
  BY DEF GnomeResolve
<1>3. /\ DOMAIN lookup' = Lookups /\ \A k \in Lookups : DOMAIN (lookup'[k]) = LookupFields
      /\ \A k \in Lookups \ {l} : lookup'[k] = lookup[k]
      /\ lookup'[l].pc \notin Updating
  BY <1>2 DEF CacheInv, Shapes, LookupFields, Updating
<1>4. Shapes' /\ OneHolds'
  BY <1>1, <1>3 DEF CacheInv, Shapes, OneHolds
<1>5. Stage = "resolve" /\ Stage' = "resolve"
  BY <1>1, ProxyBounds DEF Stage
<1>6. UpToDate'
  BY <1>1, <1>5 DEF CacheInv, UpToDate, Told, Read, Derived
<1> QED BY <1>4, <1>6 DEF CacheInv

\* The steps outside of the GNOME resolver.
LEMMA OthersStay ==
  ASSUME CacheInv, NEW l \in Lookups,
         \/ PacCall(l) \/ HandleMethodCall(l) \/ PacRuns(l) \/ LibproxyThread(l)
         \/ EnvironmentLookup(l) \/ EnvironmentFinish(l) \/ Take(l) \/ CancelLookup(l)
         \/ \E kind \in LookupKinds : Lookup(l, kind)
  PROVE  CacheInv'
<1>1. UNCHANGED <<settings, signals, need_update, cache, lock>>
  BY DEF PacCall, HandleMethodCall, PacRuns, LibproxyThread, EnvironmentLookup, EnvironmentFinish,
         Take, CancelLookup, Lookup, resolverRest
<1>2. lookup[l].pc \notin Updating
  BY DEF PacCall, HandleMethodCall, PacRuns, LibproxyThread, EnvironmentLookup, EnvironmentFinish,
         Take, CancelLookup, Lookup, Updating
<1>3. l # lock
  <2>1. lookup[l].pc = "resolve" => lookup[l].via # "gnome"
    BY DEF PacCall, HandleMethodCall, PacRuns, LibproxyThread, EnvironmentLookup,
           EnvironmentFinish, Take, CancelLookup, Lookup
  <2> QED BY <1>2, <2>1, ProxyBounds DEF CacheInv, OneHolds
<1>4. DOMAIN lookup = Lookups /\ \A k \in Lookups : DOMAIN lookup[k] = LookupFields
  BY DEF CacheInv, Shapes
<1> DEFINE Done == /\ DOMAIN lookup' = Lookups
                   /\ \A k \in Lookups : DOMAIN (lookup'[k]) = LookupFields
                   /\ lookup'[l].pc \notin Updating
                   /\ \A k \in Lookups \ {l} : /\ lookup'[k].pc = lookup[k].pc
                                               /\ lookup'[k].via = lookup[k].via
                                               /\ lookup'[k].http = lookup[k].http
<1>5. ASSUME NEW pc, pc \notin Updating, NEW answer,
             \/ lookup' = [lookup EXCEPT ![l].pc = pc]
             \/ lookup' = [lookup EXCEPT ![l].pc = pc, ![l].answer = answer]
             \/ lookup' = lookup /\ pc = lookup[l].pc
             \/ lookup' = [lookup EXCEPT ![l] = NoLookup]
      PROVE  Done
  BY <1>4, <1>5 DEF LookupFields, NoLookup, Updating
<1> HIDE DEF Done
<1>6. Done
  <2>1. CASE PacCall(l)
    BY <1>5, <2>1 DEF PacCall, Updating
  <2>2. CASE HandleMethodCall(l)
    BY <1>5, <2>2 DEF HandleMethodCall, Updating
  <2>3. CASE PacRuns(l)
    <3>1. \/ \E answer : lookup' = [lookup EXCEPT ![l].pc = "done", ![l].ran = runner, ![l].answer = answer]
          \/ \E answer : lookup' = [lookup EXCEPT ![l].pc = "done", ![l].answer = answer]
      BY <2>3 DEF PacRuns, Answer
    <3>2. "done" \notin Updating
      BY DEF Updating
    <3>3. ASSUME NEW answer,
                 lookup' = [lookup EXCEPT ![l].pc = "done", ![l].ran = runner, ![l].answer = answer]
          PROVE  Done
      BY <1>4, <3>3 DEF Done, LookupFields, Updating
    <3>4. ASSUME NEW answer, lookup' = [lookup EXCEPT ![l].pc = "done", ![l].answer = answer]
          PROVE  Done
      BY <1>5, <3>2, <3>4
    <3> QED BY <3>1, <3>3, <3>4
  <2>4. CASE LibproxyThread(l)
    BY <1>5, <2>4 DEF LibproxyThread, Answer, Updating
  <2>5. CASE EnvironmentLookup(l)
    BY <1>5, <2>5 DEF EnvironmentLookup, Updating
  <2>6. CASE EnvironmentFinish(l)
    BY <1>2, <1>5, <2>6 DEF EnvironmentFinish, Updating
  <2>7. CASE Take(l)
    BY <1>5, <2>7 DEF Take, Updating
  <2>8. CASE CancelLookup(l)
    BY <1>5, <2>8 DEF CancelLookup, Answer, Updating
  <2>9. ASSUME NEW kind \in LookupKinds, Lookup(l, kind)
        PROVE  Done
    <3> DEFINE pc == IF kind.via = "libproxy" THEN "thread" ELSE "resolve"
               alone == \A other \in Lookups : lookup[other].pc = "idle"
               new == [NoLookup EXCEPT !.pc = pc, !.via = kind.via, !.async = kind.async,
                                       !.scheme = kind.scheme, !.ignored = kind.ignored,
                                       !.alone = alone]
    <3>1. lookup' = [k \in Lookups |-> IF k # l THEN [lookup[k] EXCEPT !.alone = FALSE] ELSE new]
      BY <2>9 DEF Lookup
    <3>2. DOMAIN new = LookupFields /\ new.pc = pc /\ pc \notin Updating
      BY DEF NoLookup, LookupFields, Updating
    <3> HIDE DEF new, pc
    <3>3. \A k \in Lookups \ {l} :
            LET other == [lookup[k] EXCEPT !.alone = FALSE]
            IN  /\ DOMAIN other = LookupFields /\ other.pc = lookup[k].pc
                /\ other.via = lookup[k].via /\ other.http = lookup[k].http
      BY <1>4 DEF LookupFields
    <3> QED BY <3>1, <3>2, <3>3 DEF Done
  <2> QED BY <2>1, <2>2, <2>3, <2>4, <2>5, <2>6, <2>7, <2>8, <2>9
<1> QED BY <1>1, <1>2, <1>3, <1>6, Elsewhere DEF Done

LEMMA CacheStays ==
  ASSUME CacheInv, [ProxyNext]_proxyVars
  PROVE  CacheInv'
<1>1. ASSUME NEW key, NEW value, Change(key, value)
      PROVE  CacheInv'
  <2>1. UNCHANGED <<lookup, cache, lock>> /\ signals'
    BY <1>1 DEF Change
  <2>2. Shapes' /\ OneHolds'
    BY <2>1 DEF CacheInv, Shapes, OneHolds
  <2>3. UpToDate'
    BY <2>1 DEF UpToDate, Told
  <2> QED BY <2>2, <2>3 DEF CacheInv
<1>2. CASE SettingsChanged
  <2>1. UNCHANGED <<lookup, cache, lock>> /\ need_update'
    BY <1>2 DEF SettingsChanged
  <2>2. Shapes' /\ OneHolds'
    BY <2>1 DEF CacheInv, Shapes, OneHolds
  <2>3. UpToDate'
    BY <2>1 DEF UpToDate, Told
  <2> QED BY <2>2, <2>3 DEF CacheInv
<1>3. ASSUME NEW l \in Lookups, GnomeLookup(l)
      PROVE  CacheInv'
  BY <1>3, GnomeLookupStays
<1>4. ASSUME NEW l \in Lookups, UpdateHttp(l) \/ UpdateHttps(l) \/ UpdateSocks(l) \/ UpdateFtp(l)
      PROVE  CacheInv'
  BY <1>4, UpdatesStay
<1>5. ASSUME NEW l \in Lookups, GnomeResolve(l)
      PROVE  CacheInv'
  BY <1>5, GnomeResolveStays
<1>6. ASSUME NEW l \in Lookups,
             \/ PacCall(l) \/ HandleMethodCall(l) \/ PacRuns(l) \/ LibproxyThread(l)
             \/ EnvironmentLookup(l) \/ EnvironmentFinish(l) \/ Take(l) \/ CancelLookup(l)
             \/ \E kind \in LookupKinds : Lookup(l, kind)
      PROVE  CacheInv'
  BY <1>6, OthersStay
<1>7. CASE UNCHANGED proxyVars
  BY <1>7 DEF proxyVars, CacheInv, Shapes, OneHolds, UpToDate, Told, Read, Stage, Derived,
              HttpRead, HttpsRead, DefaultRead
<1> QED
  <2>1. ASSUME NEW l \in Lookups, LookupStep(l) \/ CancelLookup(l) \/ \E kind \in LookupKinds : Lookup(l, kind)
        PROVE  CacheInv'
    BY <2>1, <1>3, <1>4, <1>5, <1>6 DEF LookupStep
  <2> QED BY <2>1, <1>1, <1>2, <1>7 DEF ProxyNext

-----------------------------------------------------------------------------
(***************************************************************************)
(* Once the resolver has been told of every change of the settings and has *)
(* no update to make, its cache agrees with all of them: whatever a lookup *)
(* read while the user changed them, and however many lookups there are.   *)
(***************************************************************************)
THEOREM CacheCurrent == ProxySpec => []CacheIsCurrent
<1>1. ASSUME ProxyInit
      PROVE  CacheInv
  <2>1. /\ lookup = [l \in Lookups |-> NoLookup] /\ cache = EmptyCache
        /\ lock = "none" /\ need_update
    BY <1>1 DEF ProxyInit
  <2>2. Shapes
    BY <2>1 DEF Shapes, NoLookup, EmptyCache, LookupFields
  <2>3. OneHolds
    BY <2>1 DEF OneHolds, NoLookup, Updating
  <2>4. UpToDate
    BY <2>1 DEF UpToDate, Told
  <2> QED BY <2>2, <2>3, <2>4 DEF CacheInv
<1>2. CacheInv /\ [ProxyNext]_proxyVars => CacheInv'
  BY CacheStays
<1>3. CacheInv => CacheIsCurrent
  <2>1. Derived.ignore = settings.ignore
    BY DEF Derived
  <2> QED BY <2>1 DEF CacheInv, UpToDate, Told, Read, Stage, CacheIsCurrent
<1> QED BY <1>1, <1>2, <1>3, PTL DEF ProxySpec

-----------------------------------------------------------------------------
(***************************************************************************)
(* What copy_proxies() makes of a list of libproxy, for every list.        *)
(***************************************************************************)
\* The first of some positions in a sequence.
LEMMA FirstOf ==
  ASSUME NEW S \in SUBSET Nat, S # {}
  PROVE  \E i \in S : \A j \in S : i <= j
<1> DEFINE R == OpToRel(<, Nat)
<1>1. \E i \in S : \A j \in S : <<j, i>> \notin R
  BY WFMin, NatLessThanWellFounded
<1>2. \A i, j \in Nat : <<j, i>> \in R <=> j < i
  BY DEF OpToRel
<1> HIDE DEF R
<1>3. PICK i \in S : \A j \in S : <<j, i>> \notin R
  BY <1>1
<1>4. \A j \in S : ~(j < i)
  BY <1>2, <1>3
<1> QED BY <1>4

\* The first n of some sequences, joined one after the other.
Joins(seqs, f, n) == \A i \in 1..n : f[i] = IF i = 1 THEN seqs[i] ELSE f[i - 1] \o seqs[i]

LEMMA JoinsThere ==
  ASSUME NEW X, NEW seqs \in Seq(Seq(X)), seqs # <<>>
  PROVE  \A n \in 1..Len(seqs) : \E f \in [1..n -> Seq(X)] : Joins(seqs, f, n)
<1> DEFINE Bad == {n \in 1..Len(seqs) : ~\E f \in [1..n -> Seq(X)] : Joins(seqs, f, n)}
<1>1. Len(seqs) \in Nat /\ \A i \in 1..Len(seqs) : seqs[i] \in Seq(X)
  OBVIOUS
<1>2. SUFFICES ASSUME Bad # {}
               PROVE  FALSE
  OBVIOUS
<1>3. Bad \in SUBSET Nat
  BY <1>1
<1> HIDE DEF Bad
<1>4. PICK n \in Bad : \A j \in Bad : n <= j
  BY <1>2, <1>3, FirstOf
<1>5. n \in 1..Len(seqs) /\ ~\E f \in [1..n -> Seq(X)] : Joins(seqs, f, n)
  BY <1>4 DEF Bad
<1>6. CASE n = 1
  <2> DEFINE f == [i \in 1..1 |-> seqs[1]]
  <2>1. f \in [1..n -> Seq(X)]
    BY <1>1, <1>5, <1>6
  <2>2. Joins(seqs, f, n)
    BY <1>6 DEF Joins
  <2> QED BY <1>5, <2>1, <2>2
<1>7. CASE n # 1
  <2>1. n - 1 \in 1..Len(seqs) /\ n - 1 \in Nat /\ ~(n <= n - 1) /\ n \in Nat /\ n > 1
    BY <1>1, <1>5, <1>7
  <2>2. n - 1 \notin Bad
    BY <1>4, <2>1
  <2>3. PICK f \in [1..n - 1 -> Seq(X)] : Joins(seqs, f, n - 1)
    BY <2>1, <2>2 DEF Bad
  <2> DEFINE g == [i \in 1..n |-> IF i = n THEN f[n - 1] \o seqs[n] ELSE f[i]]
  <2>4. f[n - 1] \o seqs[n] \in Seq(X)
    <3>1. f[n - 1] \in Seq(X) /\ seqs[n] \in Seq(X)
      BY <1>1, <1>5, <2>1, <2>3
    <3> QED BY <3>1
  <2>5. g \in [1..n -> Seq(X)]
    BY <2>1, <2>3, <2>4
  <2>6. Joins(seqs, g, n)
    <3> SUFFICES ASSUME NEW i \in 1..n
                 PROVE  g[i] = IF i = 1 THEN seqs[i] ELSE g[i - 1] \o seqs[i]
      BY DEF Joins
    <3>1. CASE i = n
      <4>1. n - 1 \in 1..n /\ n - 1 # n /\ n \in 1..n /\ n # 1
        BY <2>1
      <4> QED BY <3>1, <4>1
    <3>2. CASE i # n
      <4>1. i \in 1..n - 1 /\ (i # 1 => i - 1 \in 1..n /\ i - 1 # n)
        BY <2>1, <3>2
      <4> QED BY <2>3, <3>2, <4>1 DEF Joins
    <3> QED BY <3>1, <3>2
  <2> QED BY <1>5, <2>5, <2>6
<1> QED BY <1>6, <1>7

\* ... and these are what FlattenSeq computes.
LEMMA Flattens ==
  ASSUME NEW X, NEW seqs \in Seq(Seq(X)), seqs # <<>>
  PROVE  \E f \in [1..Len(seqs) -> Seq(X)] :
           Joins(seqs, f, Len(seqs)) /\ FlattenSeq(seqs) = f[Len(seqs)]
<1> DEFINE n == Len(seqs)
           step(f) == [i \in 1..n |-> IF i = 1 THEN seqs[i] ELSE f[i - 1] \o seqs[i]]
           flatten == CHOOSE f : f = step(f)
<1>1. n \in Nat /\ n >= 1 /\ \A i \in 1..n : seqs[i] \in Seq(X)
  OBVIOUS
<1>2. FlattenSeq(seqs) = flatten[n]
  <2>1. Len(seqs) # 0
    BY <1>1
  <2> QED BY <2>1 DEF FlattenSeq
<1>3. flatten = step(flatten)
  <2>1. n \in 1..n
    BY <1>1
  <2>2. PICK f \in [1..n -> Seq(X)] : Joins(seqs, f, n)
    BY <2>1, JoinsThere
  <2>3. \A i \in 1..n : f[i] = step(f)[i]
    BY <2>2 DEF Joins
  <2>4. f = step(f)
    BY <2>2, <2>3
  <2> QED BY <2>4
<1>4. Joins(seqs, flatten, n)
  <2>1. \A i \in 1..n : flatten[i] = step(flatten)[i]
    BY <1>3
  <2> QED BY <2>1 DEF Joins
<1>5. DOMAIN flatten = 1..n
  BY <1>3
<1>6. flatten = [i \in 1..n |-> flatten[i]]
  BY <1>3
<1> HIDE DEF flatten
<1> DEFINE Bad == {i \in 1..n : flatten[i] \notin Seq(X)}
<1>7. Bad \in SUBSET Nat
  BY <1>1
<1> HIDE DEF n
<1>8. Bad = {}
  <2>1. SUFFICES ASSUME Bad # {}
                 PROVE  FALSE
    OBVIOUS
  <2> HIDE DEF Bad
  <2>2. PICK i \in Bad : \A j \in Bad : i <= j
    BY <1>7, <2>1, FirstOf
  <2>3. i \in 1..n /\ flatten[i] \notin Seq(X)
    BY <2>2 DEF Bad
  <2>4. flatten[i] = IF i = 1 THEN seqs[i] ELSE flatten[i - 1] \o seqs[i]
    BY <1>4, <2>3 DEF Joins
  <2>5. i # 1 => i - 1 \in 1..n /\ ~(i <= i - 1)
    BY <1>1, <2>3
  <2>6. i # 1 => flatten[i - 1] \in Seq(X)
    BY <2>2, <2>5 DEF Bad
  <2>7. seqs[i] \in Seq(X)
    BY <1>1, <2>3
  <2>8. i # 1 => flatten[i - 1] \o seqs[i] \in Seq(X)
    BY <2>6, <2>7
  <2> QED BY <2>3, <2>4, <2>7, <2>8
<1>9. flatten \in [1..n -> Seq(X)]
  BY <1>6, <1>8 DEF Bad
<1> QED BY <1>2, <1>4, <1>9 DEF n

\* How many of the first n proxies are written three times.
Threefold(proxies, n) == Cardinality({i \in 1..n : proxies[i] = "socks"})

LEMMA Counted ==
  ASSUME NEW proxies, NEW n \in Nat
  PROVE  /\ Threefold(proxies, 0) = 0 /\ Threefold(proxies, n) \in Nat
         /\ Threefold(proxies, n + 1) = Threefold(proxies, n) + (IF proxies[n + 1] = "socks" THEN 1 ELSE 0)
<1> DEFINE Before == {i \in 1..n : proxies[i] = "socks"}
           Upto == {i \in 1..n + 1 : proxies[i] = "socks"}
<1>1. IsFiniteSet(Before) /\ Cardinality(Before) \in Nat
  <2>1. IsFiniteSet(1..n) /\ Before \in SUBSET (1..n)
    BY FS_Interval
  <2> QED BY <2>1, FS_Subset, FS_CardinalityType
<1>2. Cardinality({i \in 1..0 : proxies[i] = "socks"}) = 0
  <2>1. {i \in 1..0 : proxies[i] = "socks"} = {}
    OBVIOUS
  <2> QED BY <2>1, FS_EmptySet
<1>3. 1..n + 1 = (1..n) \cup {n + 1} /\ n + 1 \notin 1..n
  OBVIOUS
<1>4. CASE proxies[n + 1] = "socks"
  <2>1. Upto = Before \cup {n + 1} /\ n + 1 \notin Before
    BY <1>3, <1>4
  <2> HIDE DEF Upto, Before
  <2>2. Cardinality(Before \cup {n + 1}) = Cardinality(Before) + 1
    BY <1>1, <2>1, FS_AddElement
  <2> QED BY <1>1, <1>2, <1>4, <2>1, <2>2 DEF Threefold, Upto, Before
<1>5. CASE proxies[n + 1] # "socks"
  <2>1. Upto = Before
    BY <1>3, <1>5
  <2> QED BY <1>1, <1>2, <1>5, <2>1 DEF Threefold
<1> QED BY <1>4, <1>5

\* What is written for one proxy.
Copy(p) ==
  CASE p = "invalid" -> <<>>
    [] p = "socks"   -> <<"socks5", "socks4a", "socks4">>
    [] OTHER         -> <<p>>
Usable == Listed \ {"invalid", "socks"}

\* Every list is copied into what was allocated for it, with a place left for the NULL.
LEMMA Copied ==
  ASSUME NEW proxies \in Seq(Listed)
  PROVE  /\ CopyProxies(proxies) \in Seq(Usable)
         /\ Len(CopyProxies(proxies)) < CopyLength(proxies)
<1> DEFINE n == Len(proxies)
           seqs == [i \in DOMAIN proxies |-> Copy(proxies[i])]
           Short(f, i) == Len(f[i]) <= i + 2 * Threefold(proxies, i)
<1>1. DOMAIN proxies = 1..n /\ n \in Nat /\ \A i \in 1..n : proxies[i] \in Listed
  OBVIOUS
<1>2. CopyProxies(proxies) = FlattenSeq(seqs)
  BY DEF CopyProxies, Copy
<1>3. CopyLength(proxies) = n + 2 * Threefold(proxies, n) + 1 /\ Threefold(proxies, n) \in Nat
  BY <1>1, Counted DEF CopyLength, Threefold
<1>4. \A p \in Listed : /\ Copy(p) \in Seq(Usable)
                        /\ Len(Copy(p)) <= 1 + 2 * (IF p = "socks" THEN 1 ELSE 0)
  <2> SUFFICES ASSUME NEW p \in Listed
               PROVE  /\ Copy(p) \in Seq(Usable)
                      /\ Len(Copy(p)) <= 1 + 2 * (IF p = "socks" THEN 1 ELSE 0)
    OBVIOUS
  <2>1. CASE p = "invalid"
    <3>1. Copy(p) = <<>>
      BY <2>1 DEF Copy
    <3>2. Len(Copy(p)) = 0 /\ Copy(p) \in Seq(Usable)
      BY <3>1
    <3> QED BY <2>1, <3>2
  <2>2. CASE p = "socks"
    <3>1. Copy(p) = <<"socks5", "socks4a", "socks4">>
      BY <2>2 DEF Copy
    <3>2. {"socks5", "socks4a", "socks4"} \subseteq Usable
      BY DEF Usable, Listed, Proxies
    <3>3. Len(Copy(p)) = 3 /\ Copy(p) \in Seq(Usable)
      BY <3>1, <3>2
    <3>4. 3 <= 1 + 2 * (IF p = "socks" THEN 1 ELSE 0)
      BY <2>2
    <3> QED BY <3>3, <3>4
  <2>3. CASE p \notin {"invalid", "socks"}
    <3>1. Copy(p) = <<p>> /\ p \in Usable
      BY <2>3 DEF Copy, Usable
    <3> QED BY <2>3, <3>1
  <2> QED BY <2>1, <2>2, <2>3
<1>5. seqs \in Seq(Seq(Usable)) /\ Len(seqs) = n /\ \A i \in 1..n : seqs[i] = Copy(proxies[i])
  BY <1>1, <1>4
<1> HIDE DEF seqs
<1>6. CASE n = 0
  <2>1. seqs = <<>>
    BY <1>5, <1>6
  <2>2. FlattenSeq(seqs) = <<>>
    BY <2>1 DEF FlattenSeq
  <2> QED BY <1>2, <1>3, <1>6, <2>2
<1>7. CASE n # 0
  <2>1. seqs # <<>> /\ n >= 1
    BY <1>1, <1>5, <1>7
  <2>2. PICK f \in [1..n -> Seq(Usable)] : Joins(seqs, f, n) /\ FlattenSeq(seqs) = f[n]
    BY <1>5, <2>1, Flattens
  <2> DEFINE Bad == {i \in 1..n : ~Short(f, i)}
  <2>3. Bad \in SUBSET Nat
    BY <1>1
  <2>4. Bad = {}
    <3>1. SUFFICES ASSUME Bad # {}
                   PROVE  FALSE
      OBVIOUS
    <3> HIDE DEF Bad
    <3>2. PICK i \in Bad : \A j \in Bad : i <= j
      BY <2>3, <3>1, FirstOf
    <3>3. i \in 1..n /\ ~Short(f, i)
      BY <3>2 DEF Bad
    <3> HIDE DEF Short
    <3>4. /\ f[i] = IF i = 1 THEN seqs[i] ELSE f[i - 1] \o seqs[i]
          /\ seqs[i] = Copy(proxies[i]) /\ proxies[i] \in Listed
      BY <1>1, <1>5, <2>2, <3>3 DEF Joins
    <3>5. Len(seqs[i]) \in Nat /\ seqs[i] \in Seq(Usable)
          /\ Len(seqs[i]) <= 1 + 2 * (IF proxies[i] = "socks" THEN 1 ELSE 0)
      BY <1>4, <3>4
    <3>6. i - 1 \in Nat /\ (i - 1) + 1 = i
      BY <1>1, <3>3
    <3>7. /\ Threefold(proxies, i - 1) \in Nat /\ Threefold(proxies, 0) = 0
          /\ Threefold(proxies, i) = Threefold(proxies, i - 1) + (IF proxies[i] = "socks" THEN 1 ELSE 0)
      BY <3>6, Counted
    <3>8. CASE i = 1
      <4>1. Threefold(proxies, i) = IF proxies[i] = "socks" THEN 1 ELSE 0
        BY <3>7, <3>8
      <4> QED BY <3>3, <3>4, <3>5, <3>8, <4>1 DEF Short
    <3>9. CASE i # 1
      <4>1. i - 1 \in 1..n /\ ~(i <= i - 1)
        BY <1>1, <3>3, <3>9
      <4>2. Short(f, i - 1)
        BY <3>2, <4>1 DEF Bad
      <4>3. f[i - 1] \in Seq(Usable)
        BY <2>2, <4>1
      <4>4. Len(f[i]) = Len(f[i - 1]) + Len(seqs[i]) /\ Len(f[i - 1]) \in Nat
        BY <3>4, <3>5, <3>9, <4>3
      <4>5. Len(f[i - 1]) <= (i - 1) + 2 * Threefold(proxies, i - 1)
        BY <4>2 DEF Short
      <4>6. i \in Nat /\ Threefold(proxies, i) \in Nat
        BY <1>1, <3>3, <3>7
      <4>7. Len(f[i]) <= i + 2 * Threefold(proxies, i)
        <5>1. \A a, b, j, t \in Nat : \A c \in {0, 1} :
                j > 0 /\ a <= (j - 1) + 2 * t /\ b <= 1 + 2 * c => a + b <= j + 2 * (t + c)
          OBVIOUS
        <5> DEFINE c == IF proxies[i] = "socks" THEN 1 ELSE 0
        <5>2. c \in {0, 1} /\ Len(seqs[i]) <= 1 + 2 * c /\ i > 0
              /\ Threefold(proxies, i) = Threefold(proxies, i - 1) + c
          BY <3>3, <3>5, <3>7
        <5> HIDE DEF c
        <5>3. Len(f[i - 1]) + Len(seqs[i]) <= i + 2 * (Threefold(proxies, i - 1) + c)
          BY <3>5, <3>7, <4>4, <4>5, <4>6, <5>1, <5>2
        <5> QED BY <4>4, <5>2, <5>3
      <4> QED BY <3>3, <4>7 DEF Short
    <3> QED BY <3>8, <3>9
  <2>5. n \in 1..n
    BY <1>1, <2>1
  <2>6. Len(f[n]) <= n + 2 * Threefold(proxies, n) /\ f[n] \in Seq(Usable)
    BY <2>2, <2>4, <2>5
  <2>7. Len(f[n]) \in Nat
    BY <2>6
  <2> QED BY <1>1, <1>2, <1>3, <2>2, <2>6, <2>7
<1> QED BY <1>6, <1>7

-----------------------------------------------------------------------------
(***************************************************************************)
(* The inductive invariant of the answers.  The placeholder is in the      *)
(* cache together with a pacrunner, if there is a bus to find one on; a    *)
(* lookup that is alone has been alone since it started, so that nobody    *)
(* else can have passed a script to libproxy.                              *)
(***************************************************************************)
Cached ==
  /\ cache.default \in {"none", "use-proxy", "http", "socks"}
  /\ DOMAIN cache.uri = Schemes
  /\ \A s \in Schemes : cache.uri[s] \in {"none", "http", "https", "ftp"}
  /\ cache.default = "use-proxy" => (pacrunner <=> bus)

Fitting(l) ==
  \A i \in DOMAIN lookup[l].answer :
    LET p == lookup[l].answer[i]
    IN  /\ p # "invalid"
        /\ p = "use-proxy" => ~bus
        /\ p = "socks" => lookup[l].via = "gnome"
Answered(l) ==
  /\ lookup[l].scheme \in Schemes /\ lookup[l].http \in {"none", "http"}
  /\ Fitting(l)
  /\ lookup[l].pc \notin {"finish", "done"} => lookup[l].answer = <<>>

OwnScript(l) ==
  /\ lookup[l].pc = "script" => runner = lookup[l].script
  /\ lookup[l].answer = <<"pac">> => lookup[l].ran = lookup[l].script
Alone(l) == \A k \in Lookups \ {l} : lookup[k].pc = "idle"

AnswersInv ==
  /\ Cached
  /\ \A l \in Lookups : Answered(l) /\ (lookup[l].alone => Alone(l) /\ OwnScript(l))

\* A step of a lookup that is in progress leaves every other as it is.
LEMMA OneAnswers ==
  ASSUME CacheInv, AnswersInv, Cached', NEW l \in Lookups, lookup[l].pc # "idle", bus' = bus,
         \A k \in Lookups \ {l} : lookup'[k] = lookup[k],
         Answered(l)', lookup'[l].alone => lookup[l].alone /\ OwnScript(l)'
  PROVE  AnswersInv'
<1>1. ASSUME NEW k \in Lookups \ {l}
      PROVE  Answered(k)' /\ ~lookup'[k].alone
  <2>1. lookup'[k] = lookup[k] /\ Answered(k) /\ (lookup[k].alone => Alone(k))
    BY DEF AnswersInv
  <2>2. Answered(k)'
    BY <2>1 DEF Answered, Fitting
  <2> QED BY <2>1, <2>2 DEF Alone
<1>2. lookup'[l].alone => Alone(l)'
  BY DEF AnswersInv, Alone
<1> QED BY <1>1, <1>2 DEF AnswersInv

\* What a simple resolver may find.
LEMMA SimpleAnswers ==
  ASSUME NEW simple, NEW l \in Lookups, lookup[l].scheme \in Schemes,
         \A s \in Schemes : simple.uri[s] \in {"none", "http", "https", "ftp"}
  PROVE  /\ SimpleLookup(simple, l) \in {"direct", "http", "https", "ftp", simple.default}
         /\ SimpleLookup(simple, l) = simple.default => SimpleLookup(simple, l) # "none"
<1> DEFINE uri == simple.uri[lookup[l].scheme]
<1>1. uri \in {"none", "http", "https", "ftp"}
  OBVIOUS
<1> HIDE DEF uri
<1>2. SimpleLookup(simple, l) =
        IF simple.ignore /\ lookup[l].ignored THEN "direct"
        ELSE IF uri # "none" THEN uri
        ELSE IF simple.default # "none" THEN simple.default
        ELSE "direct"
  BY DEF SimpleLookup, uri
<1> QED BY <1>1, <1>2

\* An answer of one proxy.
LEMMA OneProxy ==
  ASSUME NEW l, NEW p, lookup'[l].answer = <<p>>, bus' = bus,
         p # "invalid", p = "use-proxy" => ~bus, p = "socks" => lookup'[l].via = "gnome"
  PROVE  Fitting(l)'
<1>1. DOMAIN <<p>> = {1} /\ <<p>>[1] = p
  OBVIOUS
<1> QED BY <1>1 DEF Fitting

LEMMA GnomeAnswers ==
  ASSUME CacheInv, AnswersInv, NEW l \in Lookups,
         \/ GnomeLookup(l) \/ UpdateHttp(l) \/ UpdateHttps(l) \/ UpdateSocks(l) \/ UpdateFtp(l)
         \/ GnomeResolve(l)
  PROVE  AnswersInv'
<1>1. /\ DOMAIN lookup = Lookups /\ \A k \in Lookups : DOMAIN lookup[k] = LookupFields
      /\ DOMAIN cache = {"default", "uri", "ignore", "version"}
      /\ Cached /\ Answered(l) /\ (lookup[l].alone => OwnScript(l))
  BY DEF CacheInv, Shapes, AnswersInv
<1>2. UNCHANGED <<bus, runner>>
  BY DEF GnomeLookup, UpdateHttp, UpdateHttps, UpdateSocks, UpdateFtp, GnomeResolve, gnomeRest
<1>3. lookup[l].pc \in Updating \cup {"resolve"} /\ lookup[l].answer = <<>>
  BY <1>1 DEF GnomeLookup, UpdateHttp, UpdateHttps, UpdateSocks, UpdateFtp, GnomeResolve, Updating,
              Answered
<1>4. ASSUME NEW pc, pc \in Updating \cup {"resolve"}, NEW http \in {"none", "http"},
             \/ lookup' = [lookup EXCEPT ![l].pc = pc]
             \/ lookup' = [lookup EXCEPT ![l].pc = pc, ![l].http = http]
             \/ lookup' = lookup,
             Cached'
      PROVE  AnswersInv'
  <2>1. /\ \A k \in Lookups \ {l} : lookup'[k] = lookup[k]
        /\ lookup'[l].scheme = lookup[l].scheme /\ lookup'[l].http \in {"none", "http"}
        /\ lookup'[l].answer = <<>> /\ lookup'[l].via = lookup[l].via
        /\ lookup'[l].alone = lookup[l].alone
        /\ lookup'[l].pc \in Updating \cup {"resolve"}
    BY <1>1, <1>3, <1>4 DEF LookupFields, Answered
  <2>2. Answered(l)'
    BY <1>1, <2>1 DEF Answered, Fitting, Updating
  <2>3. OwnScript(l)'
    BY <2>1 DEF OwnScript, Updating
  <2> QED BY <1>2, <1>3, <1>4, <2>1, <2>2, <2>3, OneAnswers DEF Updating
<1>5. ASSUME NEW s \in Schemes, NEW proxy \in {"none", "http", "https", "ftp"},
             cache'.uri = [cache.uri EXCEPT ![s] = proxy],
             cache'.default \in {cache.default, "http", "socks"}, pacrunner' = pacrunner
      PROVE  Cached'
  <2>1. DOMAIN cache'.uri = Schemes /\ \A r \in Schemes : cache'.uri[r] \in {"none", "http", "https", "ftp"}
    BY <1>1, <1>5 DEF Cached
  <2> QED BY <1>1, <1>2, <1>5, <2>1 DEF Cached
<1>6. CASE GnomeLookup(l)
  <2>1. CASE need_update
    <3>1. /\ cache' = [default |-> IF settings.mode = "auto" THEN "use-proxy" ELSE "none",
                       uri |-> NoUris, ignore |-> settings.ignore, version |-> version]
          /\ pacrunner' = (settings.mode = "auto" /\ bus)
          /\ lookup' = [lookup EXCEPT ![l].pc = IF settings.mode = "manual" THEN "http" ELSE "resolve"]
      BY <1>6, <2>1 DEF GnomeLookup, UpdateSettings
    <3>2. /\ cache'.default = (IF settings.mode = "auto" THEN "use-proxy" ELSE "none")
          /\ cache'.uri = NoUris
      BY <3>1
    <3>3. DOMAIN NoUris = Schemes /\ \A s \in Schemes : NoUris[s] = "none"
      BY DEF NoUris
    <3>4. cache'.default = "use-proxy" => (pacrunner' <=> bus)
      BY <3>1, <3>2
    <3>5. cache'.default \in {"none", "use-proxy", "http", "socks"}
      BY <3>2
    <3>6. Cached'
      BY <1>2, <3>2, <3>3, <3>4, <3>5 DEF Cached
    <3> QED BY <1>4, <3>1, <3>6 DEF Updating
  <2>2. CASE ~need_update
    <3>1. UNCHANGED <<cache, pacrunner, lookup>>
      BY <1>6, <2>2 DEF GnomeLookup
    <3>2. Cached'
      BY <1>1, <1>2, <3>1 DEF Cached
    <3> QED BY <1>4, <3>1, <3>2
  <2> QED BY <2>1, <2>2
<1>7. CASE UpdateHttp(l)
  <2> DEFINE proxy == IF settings.http = "valid" THEN "http" ELSE "none"
  <2>1. /\ cache' = [cache EXCEPT !.uri["http"] = proxy,
                       !.default = IF proxy # "none" /\ settings.same THEN proxy ELSE @]
        /\ lookup' = [lookup EXCEPT ![l].pc = "https", ![l].http = proxy]
        /\ pacrunner' = pacrunner
    BY <1>7 DEF UpdateHttp
  <2>2. proxy \in {"none", "http"}
    OBVIOUS
  <2> HIDE DEF proxy
  <2>3. /\ cache'.uri = [cache.uri EXCEPT !["http"] = proxy]
        /\ cache'.default = IF proxy # "none" /\ settings.same THEN proxy ELSE cache.default
    BY <1>1, <2>1
  <2>4. Cached'
    BY <1>5, <2>1, <2>2, <2>3 DEF Schemes
  <2> QED BY <1>4, <2>1, <2>2, <2>4 DEF Updating
<1>8. CASE UpdateHttps(l)
  <2> DEFINE proxy == IF settings.https = "valid" THEN "https"
                      ELSE IF settings.https = "unset" THEN lookup[l].http ELSE "none"
  <2>1. /\ cache' = [cache EXCEPT !.uri["https"] = proxy]
        /\ lookup' = [lookup EXCEPT ![l].pc = "socks"] /\ pacrunner' = pacrunner
    BY <1>8 DEF UpdateHttps
  <2>2. proxy \in {"none", "http", "https"}
    BY <1>1 DEF Answered
  <2> HIDE DEF proxy
  <2>3. cache'.uri = [cache.uri EXCEPT !["https"] = proxy] /\ cache'.default = cache.default
    BY <1>1, <2>1
  <2>4. Cached'
    BY <1>5, <2>1, <2>2, <2>3 DEF Schemes
  <2> QED BY <1>4, <2>1, <2>4 DEF Updating
<1>9. CASE UpdateSocks(l)
  <2>1. /\ cache' = [cache EXCEPT !.default = IF settings.socks = "valid" THEN "socks" ELSE @]
        /\ lookup' = [lookup EXCEPT ![l].pc = "ftp"] /\ pacrunner' = pacrunner
    BY <1>9 DEF UpdateSocks
  <2>2. cache'.uri = cache.uri /\ cache'.default \in {cache.default, "socks"}
    BY <1>1, <2>1
  <2>3. Cached'
    BY <1>1, <1>2, <2>1, <2>2 DEF Cached
  <2> QED BY <1>4, <2>1, <2>3 DEF Updating
<1>10. CASE UpdateFtp(l)
  <2>1. /\ cache' = [cache EXCEPT !.uri["ftp"] = IF settings.ftp = "valid" THEN "ftp" ELSE "none"]
        /\ lookup' = [lookup EXCEPT ![l].pc = "resolve"] /\ pacrunner' = pacrunner
    BY <1>10 DEF UpdateFtp
  <2>2. /\ cache'.uri = [cache.uri EXCEPT !["ftp"] = IF settings.ftp = "valid" THEN "ftp" ELSE "none"]
        /\ cache'.default = cache.default
    BY <1>1, <2>1
  <2>3. Cached'
    BY <1>5, <2>1, <2>2 DEF Schemes
  <2> QED BY <1>4, <2>1, <2>3 DEF Updating
<1>11. CASE GnomeResolve(l)
  <2> DEFINE proxy == SimpleLookup(cache, l)
  <2>1. /\ lookup[l].pc = "resolve" /\ lock = l /\ UNCHANGED <<cache, pacrunner>>
        /\ IF proxy # "direct" /\ pacrunner
             THEN lookup' = [lookup EXCEPT ![l].pc = "pac", ![l].script = cache.version]
             ELSE lookup' = [lookup EXCEPT ![l].pc = "done", ![l].answer = <<proxy>>]
    BY <1>11 DEF GnomeResolve
  <2>2. lookup[l].via = "gnome"
    BY <2>1, ProxyBounds DEF CacheInv, OneHolds
  <2>3. proxy \in {"direct", "http", "https", "ftp", cache.default}
    BY <1>1, SimpleAnswers DEF Answered, Cached
  <2>4. Cached'
    BY <1>1, <1>2, <2>1 DEF Cached
  <2> HIDE DEF proxy
  <2>5. CASE proxy # "direct" /\ pacrunner
    <3>1. lookup' = [lookup EXCEPT ![l].pc = "pac", ![l].script = cache.version]
      BY <2>1, <2>5
    <3>2. /\ \A k \in Lookups \ {l} : lookup'[k] = lookup[k]
          /\ lookup'[l].scheme = lookup[l].scheme /\ lookup'[l].http = lookup[l].http
          /\ lookup'[l].answer = <<>> /\ lookup'[l].pc = "pac"
          /\ lookup'[l].alone = lookup[l].alone
      BY <1>1, <1>3, <3>1 DEF LookupFields
    <3>3. Answered(l)' /\ OwnScript(l)'
      BY <1>1, <3>2 DEF Answered, Fitting, OwnScript
    <3> QED BY <1>2, <2>1, <2>4, <3>2, <3>3, OneAnswers
  <2>6. CASE ~(proxy # "direct" /\ pacrunner)
    <3>1. lookup' = [lookup EXCEPT ![l].pc = "done", ![l].answer = <<proxy>>]
      BY <2>1, <2>6
    <3>2. /\ \A k \in Lookups \ {l} : lookup'[k] = lookup[k]
          /\ lookup'[l].scheme = lookup[l].scheme /\ lookup'[l].http = lookup[l].http
          /\ lookup'[l].answer = <<proxy>> /\ lookup'[l].pc = "done"
          /\ lookup'[l].via = "gnome" /\ lookup'[l].alone = lookup[l].alone
      BY <1>1, <2>2, <3>1 DEF LookupFields
    <3>3. proxy \notin {"invalid", "pac"} /\ (proxy = "use-proxy" => ~bus)
      BY <1>1, <2>3, <2>6 DEF Cached
    <3>4. Fitting(l)'
      BY <1>2, <3>2, <3>3, OneProxy
    <3>5. Answered(l)'
      BY <1>1, <3>2, <3>4 DEF Answered
    <3>6. <<proxy>> # <<"pac">>
      BY <3>3
    <3>7. OwnScript(l)'
      BY <3>2, <3>6 DEF OwnScript
    <3> QED BY <1>2, <2>1, <2>4, <3>2, <3>5, <3>7, OneAnswers
  <2> QED BY <2>5, <2>6
<1> QED BY <1>6, <1>7, <1>8, <1>9, <1>10, <1>11

\* libproxy and the pacrunner answer, the environment does, or nobody.
LEMMA OthersAnswer ==
  ASSUME CacheInv, AnswersInv, NEW l \in Lookups,
         \/ PacCall(l) \/ HandleMethodCall(l) \/ PacRuns(l) \/ LibproxyThread(l)
         \/ EnvironmentLookup(l) \/ EnvironmentFinish(l) \/ Take(l) \/ CancelLookup(l)
  PROVE  AnswersInv'
<1>1. /\ DOMAIN lookup = Lookups /\ \A k \in Lookups : DOMAIN lookup[k] = LookupFields
      /\ Cached /\ Answered(l) /\ (lookup[l].alone => OwnScript(l))
  BY DEF CacheInv, Shapes, AnswersInv
<1>2. UNCHANGED <<bus, cache, pacrunner, environment>>
  BY DEF PacCall, HandleMethodCall, PacRuns, LibproxyThread, EnvironmentLookup, EnvironmentFinish,
         Take, CancelLookup, resolverRest
<1>3. Cached' /\ lookup[l].pc # "idle"
  BY <1>1, <1>2 DEF Cached, PacCall, HandleMethodCall, PacRuns, LibproxyThread, EnvironmentLookup,
                    EnvironmentFinish, Take, CancelLookup
<1>4. ASSUME NEW pc, NEW answer, NEW ran,
             \/ lookup' = [lookup EXCEPT ![l].pc = pc, ![l].answer = answer] /\ ran = lookup[l].ran
             \/ lookup' = [lookup EXCEPT ![l].pc = pc, ![l].ran = ran, ![l].answer = answer],
             pc \in {"finish", "done"}, Fitting(l)',
             answer = <<"pac">> => ran = lookup[l].script
      PROVE  AnswersInv'
  <2>1. /\ \A k \in Lookups \ {l} : lookup'[k] = lookup[k]
        /\ lookup'[l].scheme = lookup[l].scheme /\ lookup'[l].http = lookup[l].http
        /\ lookup'[l].answer = answer /\ lookup'[l].pc = pc /\ lookup'[l].script = lookup[l].script
        /\ lookup'[l].ran = ran /\ lookup'[l].alone = lookup[l].alone
    BY <1>1, <1>4 DEF LookupFields
  <2>2. Answered(l)' /\ OwnScript(l)'
    BY <1>1, <1>4, <2>1 DEF Answered, OwnScript
  <2> QED BY <1>2, <1>3, <2>1, <2>2, OneAnswers
<1>5. ASSUME NEW answer, lookup' = [lookup EXCEPT ![l].pc = "done", ![l].answer = answer],
             answer = <<>> \/ answer \in Seq(Usable)
      PROVE  AnswersInv'
  <2>1. lookup'[l].answer = answer
    BY <1>1, <1>5 DEF LookupFields
  <2>2. \A i \in DOMAIN answer : answer[i] \in Usable
    BY <1>5
  <2>3. Fitting(l)' /\ answer # <<"pac">>
    <3>1. Fitting(l)'
      BY <2>1, <2>2 DEF Fitting, Usable, Listed
    <3>2. ASSUME answer = <<"pac">>
          PROVE  FALSE
      <4>1. DOMAIN answer = {1} /\ answer[1] = "pac"
        BY <3>2
      <4> QED BY <2>2, <4>1 DEF Usable, Listed
    <3> QED BY <3>1, <3>2
  <2> QED BY <1>4, <1>5, <2>3
<1>6. CASE PacCall(l) \/ HandleMethodCall(l)
  <2>1. PICK pc \in {"bus", "script"} :
          /\ lookup' = [lookup EXCEPT ![l].pc = pc] /\ lookup[l].pc \notin {"finish", "done"}
          /\ pc = "script" => runner' = lookup[l].script
    BY <1>6 DEF PacCall, HandleMethodCall
  <2>2. /\ \A k \in Lookups \ {l} : lookup'[k] = lookup[k]
        /\ lookup'[l].scheme = lookup[l].scheme /\ lookup'[l].http = lookup[l].http
        /\ lookup'[l].answer = <<>> /\ lookup'[l].pc = pc /\ lookup'[l].script = lookup[l].script
        /\ lookup'[l].alone = lookup[l].alone
    BY <1>1, <2>1 DEF LookupFields, Answered
  <2>3. Answered(l)' /\ OwnScript(l)'
    BY <1>1, <2>1, <2>2 DEF Answered, Fitting, OwnScript
  <2> QED BY <1>2, <1>3, <2>2, <2>3, OneAnswers
<1>7. CASE PacRuns(l)
  <2>1. lookup[l].pc = "script" /\ runner' = runner
    BY <1>7 DEF PacRuns
  <2>2. CASE lookup' = [lookup EXCEPT ![l].pc = "done", ![l].ran = runner, ![l].answer = <<"pac">>]
    <3>1. /\ \A k \in Lookups \ {l} : lookup'[k] = lookup[k]
          /\ lookup'[l].scheme = lookup[l].scheme /\ lookup'[l].http = lookup[l].http
          /\ lookup'[l].answer = <<"pac">> /\ lookup'[l].pc = "done"
          /\ lookup'[l].script = lookup[l].script /\ lookup'[l].ran = runner
          /\ lookup'[l].alone = lookup[l].alone
      BY <1>1, <2>2 DEF LookupFields
    <3>2. Fitting(l)'
      BY <1>2, <3>1, OneProxy
    <3>3. Answered(l)'
      BY <1>1, <3>1, <3>2 DEF Answered
    <3>4. lookup'[l].alone => lookup[l].alone /\ OwnScript(l)'
      BY <1>1, <2>1, <3>1 DEF OwnScript
    <3> QED BY <1>2, <1>3, <3>1, <3>3, <3>4, OneAnswers
  <2>3. CASE Answer(l, <<>>)
    BY <1>5, <2>3 DEF Answer
  <2> QED BY <1>7, <2>2, <2>3 DEF PacRuns
<1>8. CASE LibproxyThread(l)
  <2>1. ASSUME NEW proxies \in LibproxyLists, Answer(l, CopyProxies(proxies))
        PROVE  AnswersInv'
    BY <1>5, <2>1, Copied, LookupBounds DEF Answer
  <2>2. CASE Answer(l, <<>>)
    BY <1>5, <2>2 DEF Answer
  <2> QED BY <1>8, <2>1, <2>2 DEF LibproxyThread
<1>9. CASE EnvironmentLookup(l)
  <2> DEFINE proxy == SimpleLookup(EnvironmentSimple, l)
             pc == IF lookup[l].async THEN "finish" ELSE "done"
  <2>1. lookup' = [lookup EXCEPT ![l].pc = pc, ![l].answer = <<proxy>>]
    BY <1>9 DEF EnvironmentLookup
  <2>2. /\ \A s \in Schemes : EnvironmentSimple.uri[s] \in {"none", "http", "https", "ftp"}
        /\ EnvironmentSimple.default \in {"none", "http"}
    BY DEF EnvironmentSimple, NoUris, Schemes
  <2>3. proxy \in {"direct", "http", "https", "ftp", EnvironmentSimple.default}
    BY <1>1, <2>2, SimpleAnswers DEF Answered
  <2>4. proxy \notin {"invalid", "use-proxy", "socks", "pac"}
    <3>1. proxy = EnvironmentSimple.default => proxy # "none"
      BY <1>1, <2>2, SimpleAnswers DEF Answered
    <3> HIDE DEF proxy
    <3> QED BY <2>2, <2>3, <3>1
  <2>5. pc \in {"finish", "done"}
    OBVIOUS
  <2> HIDE DEF proxy, pc
  <2>6. lookup'[l].answer = <<proxy>>
    BY <1>1, <2>1 DEF LookupFields
  <2>7. Fitting(l)' /\ <<proxy>> # <<"pac">>
    BY <1>2, <2>4, <2>6, OneProxy
  <2> QED BY <1>4, <2>1, <2>5, <2>7
<1>10. CASE EnvironmentFinish(l)
  <2>1. CASE lookup' = lookup
    <3>1. runner' = runner
      BY <1>10 DEF EnvironmentFinish
    <3> QED BY <1>2, <1>3, <2>1, <3>1 DEF AnswersInv, Answered, Fitting, Alone, OwnScript
  <2>2. CASE lookup' = [lookup EXCEPT ![l].pc = "done"]
    <3>1. /\ \A k \in Lookups \ {l} : lookup'[k] = lookup[k]
          /\ lookup'[l].scheme = lookup[l].scheme /\ lookup'[l].http = lookup[l].http
          /\ lookup'[l].answer = lookup[l].answer /\ lookup'[l].pc = "done"
          /\ lookup'[l].script = lookup[l].script /\ lookup'[l].ran = lookup[l].ran
          /\ lookup'[l].alone = lookup[l].alone /\ lookup'[l].via = lookup[l].via
      BY <1>1, <2>2 DEF LookupFields
    <3>2. lookup[l].pc = "finish"
      BY <1>10 DEF EnvironmentFinish
    <3>3. Answered(l)'
      BY <1>1, <1>2, <3>1, <3>2 DEF Answered, Fitting
    <3>4. lookup'[l].alone => lookup[l].alone /\ OwnScript(l)'
      BY <1>1, <3>1, <3>2 DEF OwnScript
    <3> QED BY <1>2, <1>3, <3>1, <3>3, <3>4, OneAnswers
  <2> QED BY <1>10, <2>1, <2>2 DEF EnvironmentFinish
<1>11. CASE Take(l)
  <2>1. lookup' = [lookup EXCEPT ![l] = NoLookup]
    BY <1>11 DEF Take
  <2>2. (\A k \in Lookups \ {l} : lookup'[k] = lookup[k]) /\ lookup'[l] = NoLookup
    BY <1>1, <2>1
  <2>3. Answered(l)' /\ ~lookup'[l].alone
    BY <2>2 DEF Answered, Fitting, NoLookup, Schemes
  <2> QED BY <1>2, <1>3, <2>2, <2>3, OneAnswers
<1>12. CASE CancelLookup(l)
  BY <1>5, <1>12 DEF CancelLookup, Answer
<1> QED BY <1>6, <1>7, <1>8, <1>9, <1>10, <1>11, <1>12

\* A lookup starts, and from then on no other is alone.
LEMMA LookupAnswers ==
  ASSUME CacheInv, AnswersInv, NEW l \in Lookups, NEW kind \in LookupKinds, Lookup(l, kind)
  PROVE  AnswersInv'
<1> DEFINE alone == \A other \in Lookups : lookup[other].pc = "idle"
           pc == IF kind.via = "libproxy" THEN "thread" ELSE "resolve"
           new == [NoLookup EXCEPT !.pc = pc, !.via = kind.via, !.async = kind.async,
                                   !.scheme = kind.scheme, !.ignored = kind.ignored,
                                   !.alone = alone]
<1>1. /\ DOMAIN lookup = Lookups /\ \A k \in Lookups : DOMAIN lookup[k] = LookupFields
      /\ Cached /\ \A k \in Lookups : Answered(k)
  BY DEF CacheInv, Shapes, AnswersInv
<1>2. /\ lookup' = [k \in Lookups |-> IF k # l THEN [lookup[k] EXCEPT !.alone = FALSE] ELSE new]
      /\ UNCHANGED <<bus, cache, pacrunner>>
  BY DEF Lookup, resolverRest
<1>3. /\ new.pc = pc /\ new.scheme = kind.scheme /\ new.http = "none" /\ new.answer = <<>>
      /\ (new.alone <=> alone) /\ pc \in {"thread", "resolve"}
  BY DEF NoLookup
<1>4. kind.scheme \in Schemes
  BY LookupBounds
<1> HIDE DEF new, pc, alone
<1>5. Cached'
  BY <1>1, <1>2 DEF Cached
<1>6. ASSUME NEW k \in Lookups \ {l}
      PROVE  Answered(k)' /\ ~lookup'[k].alone /\ lookup'[k].pc = lookup[k].pc
  <2>1. lookup'[k] = [lookup[k] EXCEPT !.alone = FALSE] /\ DOMAIN lookup[k] = LookupFields
    BY <1>1, <1>2
  <2>2. /\ ~lookup'[k].alone /\ lookup'[k].pc = lookup[k].pc /\ lookup'[k].via = lookup[k].via
        /\ lookup'[k].scheme = lookup[k].scheme /\ lookup'[k].http = lookup[k].http
        /\ lookup'[k].answer = lookup[k].answer
    BY <2>1 DEF LookupFields
  <2>3. Answered(k) /\ bus' = bus
    BY <1>1, <1>2
  <2>4. Answered(k)'
    BY <2>2, <2>3 DEF Answered, Fitting
  <2> QED BY <2>2, <2>4
<1>7. lookup'[l] = new
  BY <1>2
<1>8. Answered(l)' /\ OwnScript(l)'
  <2>1. /\ lookup'[l].pc \in {"thread", "resolve"} /\ lookup'[l].scheme \in Schemes
        /\ lookup'[l].http = "none" /\ lookup'[l].answer = <<>>
    BY <1>3, <1>4, <1>7
  <2>2. DOMAIN <<>> = {} /\ <<>> # <<"pac">>
    OBVIOUS
  <2>3. Fitting(l)'
    BY <2>1, <2>2 DEF Fitting
  <2>4. Answered(l)'
    BY <2>1, <2>3 DEF Answered
  <2>5. OwnScript(l)'
    BY <2>1, <2>2 DEF OwnScript
  <2> QED BY <2>4, <2>5
<1>9. lookup'[l].alone => Alone(l)'
  BY <1>3, <1>6, <1>7 DEF Alone, alone
<1> QED BY <1>5, <1>6, <1>8, <1>9 DEF AnswersInv

LEMMA AnswersStay ==
  ASSUME CacheInv, AnswersInv, [ProxyNext]_proxyVars
  PROVE  AnswersInv'
<1> DEFINE Outside == UNCHANGED <<lookup, cache, bus, pacrunner, runner>>
<1>1. Outside => AnswersInv'
  BY DEF AnswersInv, Cached, Answered, Fitting, Alone, OwnScript
<1>2. \A key, value : Change(key, value) => Outside
  BY DEF Change
<1>3. SettingsChanged => Outside
  BY DEF SettingsChanged
<1>4. UNCHANGED proxyVars => Outside
  BY DEF proxyVars
<1>5. ASSUME NEW l \in Lookups, LookupStep(l) \/ CancelLookup(l) \/ \E kind \in LookupKinds : Lookup(l, kind)
      PROVE  AnswersInv'
  BY <1>5, GnomeAnswers, OthersAnswer, LookupAnswers DEF LookupStep
<1> HIDE DEF Outside
<1> QED BY <1>1, <1>2, <1>3, <1>4, <1>5 DEF ProxyNext

(***************************************************************************)
(* Every answer is one an application can use: no invalid URI, no          *)
(* unspecific SOCKS proxy of libproxy, and the placeholder of the cache    *)
(* only where no bus is; no list is copied past what copy_proxies()        *)
(* allocated; and a lookup that was alone is answered by its own script.   *)
(***************************************************************************)
THEOREM AnswersFit == ProxySpec => []AnswersAreUsable
<1>1. ASSUME ProxyInit
      PROVE  CacheInv /\ AnswersInv
  <2>1. /\ lookup = [l \in Lookups |-> NoLookup] /\ cache = EmptyCache
        /\ lock = "none" /\ need_update
    BY <1>1 DEF ProxyInit
  <2>2. Shapes
    BY <2>1 DEF Shapes, NoLookup, EmptyCache, LookupFields
  <2>3. OneHolds
    BY <2>1 DEF OneHolds, NoLookup, Updating
  <2>4. UpToDate
    BY <2>1 DEF UpToDate, Told
  <2>5. Cached
    BY <2>1 DEF Cached, EmptyCache, NoUris
  <2>6. \A l \in Lookups : Answered(l) /\ ~lookup[l].alone
    BY <2>1 DEF Answered, Fitting, NoLookup, Schemes
  <2> QED BY <2>2, <2>3, <2>4, <2>5, <2>6 DEF CacheInv, AnswersInv
<1>2. CacheInv /\ AnswersInv /\ [ProxyNext]_proxyVars => CacheInv' /\ AnswersInv'
  BY CacheStays, AnswersStay
<1>3. CacheInv /\ AnswersInv => AnswersAreUsable
  BY Copied, LookupBounds DEF AnswersInv, Answered, Fitting, OwnScript, AnswersAreUsable
<1> QED BY <1>1, <1>2, <1>3, PTL DEF ProxySpec

-----------------------------------------------------------------------------
(***************************************************************************)
(* The types.                                                              *)
(***************************************************************************)
LookupPcs ==
  {"idle", "http", "https", "socks", "ftp", "resolve", "pac", "bus", "script", "thread",
   "finish", "done"}
LookupType ==
  [pc : LookupPcs, via : Vias, async : BOOLEAN, scheme : Schemes, ignored : BOOLEAN,
   alone : BOOLEAN, script : 0..MaxChanges, ran : 0..MaxChanges, http : {"none", "http"},
   answer : Seq(Proxies)]
CacheType ==
  [default : {"none", "use-proxy", "http", "socks"},
   uri : [Schemes -> {"none", "http", "https", "ftp"}],
   ignore : BOOLEAN, version : 0..MaxChanges]

LEMMA LookupsTyped ==
  ASSUME ProxyTypeOK, NEW l \in Lookups
  PROVE  /\ lookup \in [Lookups -> LookupType] /\ lookup[l] \in LookupType /\ cache \in CacheType
         /\ NoLookup \in LookupType /\ SimpleLookup(cache, l) \in Proxies
         /\ SimpleLookup(EnvironmentSimple, l) \in Proxies
         /\ NoUris \in [Schemes -> {"none", "http", "https", "ftp"}]
<1>1. lookup \in [Lookups -> LookupType] /\ cache \in CacheType
  BY DEF ProxyTypeOK, LookupType, LookupPcs, CacheType
<1>2. lookup[l] \in LookupType
  BY <1>1
<1>3. <<>> \in Seq(Proxies)
  OBVIOUS
<1>4. NoLookup \in LookupType
  BY <1>3, ProxyBounds DEF NoLookup, LookupType, LookupPcs, Vias, Schemes
<1>5. lookup[l].scheme \in Schemes
  BY <1>2 DEF LookupType
<1>6. SimpleLookup(cache, l) \in {"direct", "http", "https", "ftp", cache.default}
      /\ (SimpleLookup(cache, l) = cache.default => SimpleLookup(cache, l) # "none")
  BY <1>1, <1>5, SimpleAnswers DEF CacheType
<1>7. SimpleLookup(cache, l) \in Proxies
  BY <1>1, <1>6 DEF CacheType, Proxies
<1>8. /\ \A s \in Schemes : EnvironmentSimple.uri[s] \in {"none", "http", "https", "ftp"}
      /\ EnvironmentSimple.default \in {"none", "http"}
  BY DEF EnvironmentSimple, NoUris, Schemes
<1>9. SimpleLookup(EnvironmentSimple, l) \in {"direct", "http", "https", "ftp", EnvironmentSimple.default}
      /\ (SimpleLookup(EnvironmentSimple, l) = EnvironmentSimple.default
            => SimpleLookup(EnvironmentSimple, l) # "none")
  BY <1>5, <1>8, SimpleAnswers
<1>10. SimpleLookup(EnvironmentSimple, l) \in Proxies
  BY <1>8, <1>9 DEF Proxies
<1>11. NoUris \in [Schemes -> {"none", "http", "https", "ftp"}]
  BY DEF NoUris
<1> QED BY <1>1, <1>2, <1>4, <1>7, <1>10, <1>11

LEMMA ProxyStepTyped ==
  ASSUME ProxyTypeOK, [ProxyNext]_proxyVars
  PROVE  ProxyTypeOK'
<1> DEFINE Rest == /\ settings \in Settings
                   /\ {version, runner} \subseteq 0..MaxChanges /\ signals \in BOOLEAN
                   /\ {need_update, pacrunner, bus, overflow} \subseteq BOOLEAN
                   /\ lock \in Lookups \cup {"none"}
           Own == cache \in CacheType /\ lookup \in [Lookups -> LookupType]
<1>1. Rest /\ MaxChanges \in Nat /\ version \in Nat
  BY ProxyBounds DEF ProxyTypeOK
<1>2. Rest' /\ Own' => ProxyTypeOK'
  BY DEF ProxyTypeOK, LookupType, LookupPcs, CacheType
<1>3. Own
  BY DEF ProxyTypeOK, LookupType, LookupPcs, CacheType
<1>4. ASSUME NEW key \in DOMAIN settings, NEW value \in Values(key), Change(key, value)
      PROVE  ProxyTypeOK'
  <2>1. /\ settings' = [settings EXCEPT ![key] = value] /\ version' = version + 1 /\ signals'
        /\ version < MaxChanges
        /\ UNCHANGED <<need_update, cache, pacrunner, lock, bus, runner, lookup, overflow>>
    BY <1>4 DEF Change
  <2>2. settings' \in Settings
    BY <1>1, <1>4, <2>1 DEF Settings, Values, Hosts
  <2>3. version' \in 0..MaxChanges
    BY <1>1, <2>1
  <2> QED BY <1>1, <1>2, <1>3, <2>1, <2>2, <2>3
<1>5. CASE SettingsChanged
  BY <1>1, <1>2, <1>3, <1>5 DEF SettingsChanged
<1>6. ASSUME NEW l \in Lookups, LookupStep(l) \/ CancelLookup(l)
      PROVE  ProxyTypeOK'
  <2>1. /\ lookup[l] \in LookupType /\ NoLookup \in LookupType /\ SimpleLookup(cache, l) \in Proxies
        /\ SimpleLookup(EnvironmentSimple, l) \in Proxies
        /\ NoUris \in [Schemes -> {"none", "http", "https", "ftp"}]
    BY LookupsTyped
  <2>2. \A p \in Proxies : <<p>> \in Seq(Proxies)
    OBVIOUS
  <2>3. <<>> \in Seq(Proxies) /\ <<"pac">> \in Seq(Proxies)
    BY DEF Proxies
  <2>4. \A pc \in LookupPcs : [lookup EXCEPT ![l].pc = pc] \in [Lookups -> LookupType]
    BY <1>3, <2>1 DEF LookupType
  <2>5. ASSUME NEW answer \in Seq(Proxies), Answer(l, answer)
        PROVE  lookup' \in [Lookups -> LookupType]
    BY <1>3, <2>1, <2>5 DEF Answer, LookupType, LookupPcs
  <2>6. CASE GnomeLookup(l)
    <3>1. CASE need_update
      <4> DEFINE default == IF settings.mode = "auto" THEN "use-proxy" ELSE "none"
                 pc == IF settings.mode = "manual" THEN "http" ELSE "resolve"
      <4>1. /\ lock' = l /\ need_update' = FALSE
            /\ cache' = [default |-> default, uri |-> NoUris, ignore |-> settings.ignore,
                         version |-> version]
            /\ pacrunner' = (settings.mode = "auto" /\ bus)
            /\ lookup' = [lookup EXCEPT ![l].pc = pc]
            /\ UNCHANGED gnomeRest
        BY <2>6, <3>1 DEF GnomeLookup, UpdateSettings
      <4>2. default \in {"none", "use-proxy"} /\ pc \in LookupPcs /\ settings.ignore \in BOOLEAN
            /\ version \in 0..MaxChanges
        BY <1>1 DEF LookupPcs, Settings
      <4>3. pacrunner' \in BOOLEAN
        BY <4>1
      <4> HIDE DEF default, pc
      <4>4. cache' \in CacheType
        BY <2>1, <4>1, <4>2 DEF CacheType
      <4>5. Rest'
        BY <1>1, <4>1, <4>3 DEF gnomeRest
      <4> QED BY <1>2, <2>4, <4>1, <4>2, <4>4, <4>5
    <3>2. CASE ~need_update
      BY <1>1, <1>2, <1>3, <2>6, <3>2 DEF GnomeLookup, gnomeRest
    <3> QED BY <3>1, <3>2
  <2>7. CASE UpdateHttp(l)
    <3>1. Rest' /\ cache' \in CacheType
      BY <1>1, <1>3, <2>7 DEF UpdateHttp, gnomeRest, CacheType, Schemes
    <3>2. lookup' \in [Lookups -> LookupType]
      BY <1>3, <2>1, <2>7 DEF UpdateHttp, LookupType, LookupPcs
    <3> QED BY <1>2, <3>1, <3>2
  <2>8. CASE UpdateHttps(l)
    <3>1. Rest' /\ cache' \in CacheType
      BY <1>1, <1>3, <2>1, <2>8 DEF UpdateHttps, gnomeRest, CacheType, LookupType, Schemes
    <3>2. lookup' \in [Lookups -> LookupType]
      BY <1>3, <2>1, <2>8 DEF UpdateHttps, LookupType, LookupPcs
    <3> QED BY <1>2, <3>1, <3>2
  <2>9. CASE UpdateSocks(l)
    <3>1. Rest' /\ cache' \in CacheType
      BY <1>1, <1>3, <2>9 DEF UpdateSocks, gnomeRest, CacheType
    <3>2. lookup' \in [Lookups -> LookupType]
      BY <1>3, <2>1, <2>9 DEF UpdateSocks, LookupType, LookupPcs
    <3> QED BY <1>2, <3>1, <3>2
  <2>10. CASE UpdateFtp(l)
    <3>1. Rest' /\ cache' \in CacheType
      BY <1>1, <1>3, <2>10 DEF UpdateFtp, gnomeRest, CacheType, Schemes
    <3>2. lookup' \in [Lookups -> LookupType]
      BY <1>3, <2>1, <2>10 DEF UpdateFtp, LookupType, LookupPcs
    <3> QED BY <1>2, <3>1, <3>2
  <2>11. CASE GnomeResolve(l)
    <3>1. Rest' /\ cache' = cache
      BY <1>1, <2>11 DEF GnomeResolve, gnomeRest
    <3>2. cache.version \in 0..MaxChanges
      BY <1>3 DEF CacheType
    <3>3. \/ lookup' = [lookup EXCEPT ![l].pc = "pac", ![l].script = cache.version]
          \/ lookup' = [lookup EXCEPT ![l].pc = "done", ![l].answer = <<SimpleLookup(cache, l)>>]
      BY <2>11 DEF GnomeResolve
    <3>4. <<SimpleLookup(cache, l)>> \in Seq(Proxies)
      BY <2>1, <2>2
    <3>5. lookup' \in [Lookups -> LookupType]
      <4>1. CASE lookup' = [lookup EXCEPT ![l].pc = "pac", ![l].script = cache.version]
        BY <1>3, <2>1, <3>2, <4>1 DEF LookupType, LookupPcs
      <4>2. CASE lookup' = [lookup EXCEPT ![l].pc = "done", ![l].answer = <<SimpleLookup(cache, l)>>]
        BY <2>5, <3>4, <4>2 DEF Answer
      <4> QED BY <3>3, <4>1, <4>2
    <3> QED BY <1>2, <1>3, <3>1, <3>5
  <2>12. CASE PacCall(l) \/ HandleMethodCall(l)
    <3>1. Rest' /\ cache' = cache
      BY <1>1, <2>1, <2>12 DEF PacCall, HandleMethodCall, resolverRest, LookupType
    <3>2. lookup' \in [Lookups -> LookupType]
      BY <2>12, <2>4 DEF PacCall, HandleMethodCall, LookupPcs
    <3> QED BY <1>2, <1>3, <3>1, <3>2
  <2>13. CASE PacRuns(l)
    <3>1. Rest' /\ cache' = cache
      BY <1>1, <2>13 DEF PacRuns, resolverRest
    <3>2. \/ lookup' = [lookup EXCEPT ![l].pc = "done", ![l].ran = runner, ![l].answer = <<"pac">>]
          \/ Answer(l, <<>>)
      BY <2>13 DEF PacRuns
    <3>3. runner \in 0..MaxChanges
      BY <1>1
    <3>4. lookup' \in [Lookups -> LookupType]
      <4>1. CASE lookup' = [lookup EXCEPT ![l].pc = "done", ![l].ran = runner, ![l].answer = <<"pac">>]
        BY <1>3, <2>1, <2>3, <3>3, <4>1 DEF LookupType, LookupPcs
      <4>2. CASE Answer(l, <<>>)
        BY <2>3, <2>5, <4>2
      <4> QED BY <3>2, <4>1, <4>2
    <3> QED BY <1>2, <1>3, <3>1, <3>4
  <2>14. CASE LibproxyThread(l) \/ CancelLookup(l)
    <3>1. Rest' /\ cache' = cache
      BY <1>1, <2>14 DEF LibproxyThread, CancelLookup, resolverRest
    <3>2. \A proxies \in LibproxyLists : CopyProxies(proxies) \in Seq(Proxies)
      <4>1. Usable \subseteq Proxies
        BY DEF Usable, Listed
      <4>2. \A proxies \in LibproxyLists : CopyProxies(proxies) \in Seq(Usable)
        BY Copied, LookupBounds
      <4>3. Seq(Usable) \subseteq Seq(Proxies)
        BY <4>1
      <4> QED BY <4>2, <4>3
    <3>3. lookup' \in [Lookups -> LookupType]
      BY <2>3, <2>5, <2>14, <3>2 DEF LibproxyThread, CancelLookup
    <3> QED BY <1>2, <1>3, <3>1, <3>3
  <2>15. CASE EnvironmentLookup(l)
    <3>1. Rest' /\ cache' = cache
      BY <1>1, <2>15 DEF EnvironmentLookup, resolverRest
    <3>2. lookup' \in [Lookups -> LookupType]
      BY <1>3, <2>1, <2>2, <2>15 DEF EnvironmentLookup, LookupType, LookupPcs
    <3> QED BY <1>2, <1>3, <3>1, <3>2
  <2>16. CASE EnvironmentFinish(l)
    <3>1. Rest' /\ cache' = cache
      BY <1>1, <2>16 DEF EnvironmentFinish
    <3>2. lookup' \in [Lookups -> LookupType]
      BY <1>3, <2>4, <2>16 DEF EnvironmentFinish, LookupPcs
    <3> QED BY <1>2, <1>3, <3>1, <3>2
  <2>17. CASE Take(l)
    BY <1>1, <1>2, <1>3, <2>1, <2>17 DEF Take, resolverRest
  <2> QED BY <1>6, <2>6, <2>7, <2>8, <2>9, <2>10, <2>11, <2>12, <2>13, <2>14, <2>15, <2>16, <2>17
          DEF LookupStep
<1>7. ASSUME NEW l \in Lookups, NEW kind \in LookupKinds, Lookup(l, kind)
      PROVE  ProxyTypeOK'
  <2> DEFINE new == [NoLookup EXCEPT
               !.pc = IF kind.via = "libproxy" THEN "thread" ELSE "resolve",
               !.via = kind.via, !.async = kind.async, !.scheme = kind.scheme,
               !.ignored = kind.ignored,
               !.alone = \A other \in Lookups : lookup[other].pc = "idle"]
  <2>1. Rest' /\ cache' = cache
    BY <1>1, <1>7 DEF Lookup, resolverRest
  <2>2. kind \in [via : Vias, async : BOOLEAN, scheme : Schemes, ignored : BOOLEAN]
    BY LookupBounds
  <2>3. NoLookup \in LookupType
    BY LookupsTyped
  <2>4. new \in LookupType
    BY <2>2, <2>3 DEF LookupType, LookupPcs
  <2>5. lookup' = [k \in Lookups |-> IF k # l THEN [lookup[k] EXCEPT !.alone = FALSE] ELSE new]
    BY <1>7 DEF Lookup
  <2> HIDE DEF new
  <2>6. \A k \in Lookups : [lookup[k] EXCEPT !.alone = FALSE] \in LookupType
    BY <1>3 DEF LookupType
  <2>7. lookup' \in [Lookups -> LookupType]
    BY <2>4, <2>5, <2>6
  <2> QED BY <1>2, <1>3, <2>1, <2>7
<1>8. CASE UNCHANGED proxyVars
  BY <1>8 DEF proxyVars, ProxyTypeOK
<1> QED BY <1>4, <1>5, <1>6, <1>7, <1>8 DEF ProxyNext

\* Every field of the resolvers keeps its type, and so does every answer.
THEOREM ProxyTypesCorrect == ProxySpec => []ProxyTypeOK
<1>1. ASSUME ProxyInit
      PROVE  ProxyTypeOK
  <2>1. settings \in Settings /\ version = 0 /\ runner = 0 /\ 0 \in 0..MaxChanges
    BY <1>1, LookupBounds, ProxyBounds DEF ProxyInit
  <2>2. <<>> \in Seq(Proxies) /\ NoUris \in [Schemes -> {"none", "http", "https", "ftp"}]
    BY DEF NoUris
  <2>3. NoLookup \in LookupType /\ EmptyCache \in CacheType
    BY <2>1, <2>2 DEF NoLookup, EmptyCache, LookupType, LookupPcs, CacheType, Vias, Schemes
  <2>4. lookup \in [Lookups -> LookupType] /\ cache \in CacheType
    BY <1>1, <2>3 DEF ProxyInit
  <2>5. /\ {version, runner} \subseteq 0..MaxChanges /\ signals \in BOOLEAN
        /\ {need_update, pacrunner, bus, overflow} \subseteq BOOLEAN
        /\ lock \in Lookups \cup {"none"}
    BY <1>1, <2>1 DEF ProxyInit
  <2> QED BY <2>1, <2>4, <2>5 DEF ProxyTypeOK, LookupType, LookupPcs, CacheType
<1>2. ProxyTypeOK /\ [ProxyNext]_proxyVars => ProxyTypeOK'
  BY ProxyStepTyped
<1> QED BY <1>1, <1>2, PTL DEF ProxySpec
=============================================================================
