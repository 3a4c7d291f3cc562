--------------------------- MODULE ProxyResolvers ---------------------------
(***************************************************************************)
(* The three proxy resolvers of src/proxy and the service that runs PAC    *)
(* scripts for the first of them:                                          *)
(*   gnome        a cache of the GNOME proxy settings, brought up to date  *)
(*                by the first lookup after a change, under a lock;        *)
(*   environment  proxies read from the environment once;                  *)
(*   libproxy     a task on a thread per lookup;                           *)
(*   glibpacrunner a D-Bus service over libproxy, which is told the PAC    *)
(*                script through the process's environment.                *)
(* All but the environment's hand their results to GSimpleProxyResolver,   *)
(* which is external, or take them from libproxy.                          *)
(***************************************************************************)
EXTENDS Integers, Sequences, SequencesExt, FiniteSets

CONSTANTS
  Lookups,      \* lookups the application may have in progress at once
  MaxChanges,   \* how often the user changes the settings
  FirstSettings,\* the settings at the start
  Environments, \* the environments a process may be started in
  LibproxyLists,\* the lists of proxies libproxy may return
  LookupKinds   \* the lookups the application makes

ASSUME ProxyBounds == MaxChanges \in Nat /\ IsFiniteSet(Lookups) /\ "none" \notin Lookups

Vias == {"gnome", "environment", "libproxy"}
Schemes == {"http", "https", "ftp", "other"}
\* The host and port of a proxy, or the value of a variable: they may make no URI.
Hosts == {"unset", "valid", "invalid"}
Settings ==
  [mode : {"none", "manual", "auto"}, same : BOOLEAN, ignore : BOOLEAN,
   http : Hosts, https : Hosts, socks : Hosts, ftp : Hosts]
ProxySettings == {"mode", "same", "ignore"}
Proxies == {"direct", "use-proxy", "http", "https", "socks", "ftp", "pac",
            "socks5", "socks4a", "socks4", "invalid"}
\* What a list of libproxy may hold: neither the placeholder of the cache nor the
\* answer of a script.
Listed == Proxies \ {"use-proxy", "pac"}

ASSUME LookupBounds ==
  /\ LookupKinds \subseteq [via : Vias, async : BOOLEAN, scheme : Schemes, ignored : BOOLEAN]
  /\ LibproxyLists \subseteq Seq(Listed)
  /\ FirstSettings \subseteq Settings
Variables == {"http_proxy", "HTTP_PROXY", "https_proxy", "HTTPS_PROXY", "ftp_proxy", "FTP_PROXY"}

VARIABLES
  settings,     \* GSettings, and the number of its changes
  version,
  signals,      \* changes the resolver's main context has not been told of
  need_update, cache, pacrunner, lock,     \* GProxyResolverGnome
  environment,  \* the variables the process was started with
  bus,          \* there is a session bus to find the pacrunner on
  runner,       \* http_proxy in the environment of glibpacrunner, a PAC script
  lookup,       \* the lookups in progress
  overflow      \* a stack has overflowed: the process is gone

proxyVars == <<settings, version, signals, need_update, cache, pacrunner, lock,
               environment, bus, runner, lookup, overflow>>

NoUris == [s \in Schemes |-> "none"]
EmptyCache == [default |-> "none", uri |-> NoUris, ignore |-> FALSE, version |-> 0]
NoLookup == [pc |-> "idle", via |-> "gnome", async |-> FALSE, scheme |-> "http",
             ignored |-> FALSE, alone |-> FALSE, script |-> 0, ran |-> 0, http |-> "none",
             answer |-> <<>>]

ProxyTypeOK ==
  /\ settings \in Settings
  /\ {version, runner} \subseteq 0..MaxChanges /\ signals \in BOOLEAN
  /\ {need_update, pacrunner, bus, overflow} \subseteq BOOLEAN
  /\ cache \in [default : {"none", "use-proxy", "http", "socks"},
                uri : [Schemes -> {"none", "http", "https", "ftp"}],
                ignore : BOOLEAN, version : 0..MaxChanges]
  /\ lock \in Lookups \cup {"none"}
  /\ lookup \in [Lookups ->
       [pc : {"idle", "http", "https", "socks", "ftp", "resolve", "pac", "bus", "script",
              "thread", "finish", "done"},
        via : Vias, async : BOOLEAN, scheme : Schemes, ignored : BOOLEAN,
        alone : BOOLEAN, script : 0..MaxChanges, ran : 0..MaxChanges, http : {"none", "http"},
        answer : Seq(Proxies)]]

ProxyInit ==
  /\ settings \in FirstSettings /\ version = 0 /\ signals = FALSE
  /\ need_update = TRUE /\ cache = EmptyCache /\ pacrunner = FALSE /\ lock = "none"
  /\ environment \in Environments
  /\ bus \in BOOLEAN /\ runner = 0
  /\ lookup = [l \in Lookups |-> NoLookup]
  /\ overflow = FALSE

-----------------------------------------------------------------------------
\* GSimpleProxyResolver, for a host that is or is not one of those to ignore.
SimpleLookup(simple, l) ==
  IF simple.ignore /\ lookup[l].ignored THEN "direct"
  ELSE IF simple.uri[lookup[l].scheme] # "none" THEN simple.uri[lookup[l].scheme]
  ELSE IF simple.default # "none" THEN simple.default
  ELSE "direct"

\* A lookup ends: lookup_finish of an environment resolver is still to come.
Answer(l, proxies) ==
  lookup' = [lookup EXCEPT ![l].pc = "done", ![l].answer = proxies]

-----------------------------------------------------------------------------
(* The GNOME settings and their cache.                                     *)

\* Mutant: no handler is connected to the settings of the children.
ChangeUnsignalled(key, value) ==
  /\ version < MaxChanges /\ settings[key] # value
  /\ settings' = [settings EXCEPT ![key] = value]
  /\ version' = version + 1
  /\ signals' = (signals \/ key \in ProxySettings)
  /\ UNCHANGED <<need_update, cache, pacrunner, lock, environment, bus, runner,
                 lookup, overflow>>

\* The user changes a setting.  External.
Change(key, value) ==
  /\ version < MaxChanges /\ settings[key] # value
  /\ settings' = [settings EXCEPT ![key] = value]
  /\ version' = version + 1
  /\ signals' = TRUE
  /\ UNCHANGED <<need_update, cache, pacrunner, lock, environment, bus, runner,
                 lookup, overflow>>

\* gsettings_changed waits for a lookup that holds the lock.
SettingsChanged ==
  /\ signals /\ lock = "none"
  /\ signals' = FALSE
  /\ need_update' = TRUE
  /\ UNCHANGED <<settings, version, cache, pacrunner, lock, environment, bus, runner, lookup,
                 overflow>>

gnomeRest == <<settings, version, signals, environment, bus, runner, overflow>>

\* Mutant: the connection to the pacrunner is made only once.
UpdateSettingsOnce(l) ==
  /\ lock' = l /\ need_update' = FALSE
  /\ cache' = [default |-> IF settings.mode = "auto" THEN "use-proxy" ELSE "none",
               uri |-> NoUris, ignore |-> settings.ignore, version |-> version]
  /\ pacrunner' = (settings.mode = "auto" /\ bus /\ cache.version = 0)
  /\ lookup' = [lookup EXCEPT ![l].pc = IF settings.mode = "manual" THEN "http" ELSE "resolve"]

\* update_settings: what comes before the children's settings.
UpdateSettings(l) ==
  /\ lock' = l /\ need_update' = FALSE
  /\ cache' = [default |-> IF settings.mode = "auto" THEN "use-proxy" ELSE "none",
               uri |-> NoUris, ignore |-> settings.ignore, version |-> version]
  /\ pacrunner' = (settings.mode = "auto" /\ bus)
  /\ lookup' = [lookup EXCEPT ![l].pc = IF settings.mode = "manual" THEN "http" ELSE "resolve"]

\* g_proxy_resolver_gnome_lookup_internal takes the lock.
GnomeLookup(l) ==
  /\ lookup[l].pc = "resolve" /\ lookup[l].via = "gnome" /\ lock = "none"
  /\ IF need_update THEN UpdateSettings(l)
     ELSE lock' = l /\ UNCHANGED <<need_update, cache, pacrunner, lookup>>
  /\ UNCHANGED gnomeRest

\* The settings of the children, one after the other.
UpdateHttp(l) ==
  LET proxy == IF settings.http = "valid" THEN "http" ELSE "none"
  IN  /\ lookup[l].pc = "http"
      /\ cache' = [cache EXCEPT !.uri["http"] = proxy,
                     !.default = IF proxy # "none" /\ settings.same THEN proxy ELSE @]
      /\ lookup' = [lookup EXCEPT ![l].pc = "https", ![l].http = proxy]
      /\ UNCHANGED <<need_update, pacrunner, lock, gnomeRest>>
UpdateHttps(l) ==
  /\ lookup[l].pc = "https"
  /\ cache' = [cache EXCEPT !.uri["https"] =
                 IF settings.https = "valid" THEN "https"
                 ELSE IF settings.https = "unset" THEN lookup[l].http ELSE "none"]
  /\ lookup' = [lookup EXCEPT ![l].pc = "socks"]
  /\ UNCHANGED <<need_update, pacrunner, lock, gnomeRest>>
UpdateSocks(l) ==
  /\ lookup[l].pc = "socks"
  /\ cache' = [cache EXCEPT !.default = IF settings.socks = "valid" THEN "socks" ELSE @]
  /\ lookup' = [lookup EXCEPT ![l].pc = "ftp"]
  /\ UNCHANGED <<need_update, pacrunner, lock, gnomeRest>>
UpdateFtp(l) ==
  /\ lookup[l].pc = "ftp"
  /\ cache' = [cache EXCEPT !.uri["ftp"] = IF settings.ftp = "valid" THEN "ftp" ELSE "none"]
  /\ lookup' = [lookup EXCEPT ![l].pc = "resolve"]
  /\ UNCHANGED <<need_update, pacrunner, lock, gnomeRest>>

\* Mutant: no done label, the lock is kept when the answer is direct.
GnomeResolveLocked(l) ==
  LET proxy == SimpleLookup(cache, l)
  IN  /\ lookup[l].pc = "resolve" /\ lock = l
      /\ lock' = IF proxy = "direct" THEN l ELSE "none"
      /\ IF proxy # "direct" /\ pacrunner
           THEN lookup' = [lookup EXCEPT ![l].pc = "pac", ![l].script = cache.version]
           ELSE lookup' = [lookup EXCEPT ![l].pc = "done", ![l].answer = <<proxy>>]
      /\ UNCHANGED <<need_update, cache, pacrunner, gnomeRest>>

\* ... and what it finds, before the lock is released: proxies, or the pacrunner
\* and the URL of the script to ask it with.
GnomeResolve(l) ==
  LET proxy == SimpleLookup(cache, l)
  IN  /\ lookup[l].pc = "resolve" /\ lock = l
      /\ lock' = "none"
      /\ IF proxy # "direct" /\ pacrunner
           THEN lookup' = [lookup EXCEPT ![l].pc = "pac", ![l].script = cache.version]
           ELSE lookup' = [lookup EXCEPT ![l].pc = "done", ![l].answer = <<proxy>>]
      /\ UNCHANGED <<need_update, cache, pacrunner, gnomeRest>>

-----------------------------------------------------------------------------
(* The pacrunner.                                                          *)

resolverRest == <<settings, version, signals, need_update, cache, pacrunner, lock,
                  environment, bus, overflow>>

\* g_dbus_proxy_call[_sync].
PacCall(l) ==
  /\ lookup[l].pc = "pac"
  /\ lookup' = [lookup EXCEPT ![l].pc = "bus"]
  /\ UNCHANGED <<runner, resolverRest>>

\* handle_method_call tells libproxy the script through http_proxy, and starts a
\* lookup on another thread ...
HandleMethodCall(l) ==
  /\ lookup[l].pc = "bus"
  /\ runner' = lookup[l].script
  /\ lookup' = [lookup EXCEPT ![l].pc = "script"]
  /\ UNCHANGED resolverRest

\* ... which reads it there, and answers or fails.
PacRuns(l) ==
  /\ lookup[l].pc = "script"
  /\ \/ lookup' = [lookup EXCEPT ![l].pc = "done", ![l].ran = runner, ![l].answer = <<"pac">>]
     \/ Answer(l, <<>>)
  /\ UNCHANGED <<runner, resolverRest>>

-----------------------------------------------------------------------------
(* libproxy.                                                               *)

\* copy_proxies: how much it allocates ...
CopyLength(proxies) ==
  Len(proxies) + 2 * Cardinality({i \in DOMAIN proxies : proxies[i] = "socks"}) + 1

\* ... and what it writes there, before the NULL at the end.
CopyProxies(proxies) ==
  FlattenSeq([i \in DOMAIN proxies |->
    CASE proxies[i] = "invalid" -> <<>>
      [] proxies[i] = "socks"   -> <<"socks5", "socks4a", "socks4">>
      [] OTHER                  -> <<proxies[i]>>])

\* get_libproxy_proxies on the task's thread; libproxy may fail.
LibproxyThread(l) ==
  /\ lookup[l].pc = "thread"
  /\ \/ \E proxies \in LibproxyLists : Answer(l, CopyProxies(proxies))
     \/ Answer(l, <<>>)
  /\ UNCHANGED <<runner, resolverRest>>

-----------------------------------------------------------------------------
(* The environment.                                                        *)

\* validate_proxy_envvar, for the two spellings of a variable.
Variable(lower, upper) == environment[lower] = "valid" \/ environment[upper] = "valid"

\* g_environment_proxy_resolver_init.
EnvironmentSimple ==
  [default |-> IF Variable("http_proxy", "HTTP_PROXY") THEN "http" ELSE "none",
   uri |-> [NoUris EXCEPT
              !["https"] = IF Variable("https_proxy", "HTTPS_PROXY") THEN "https" ELSE "none",
              !["ftp"] = IF Variable("ftp_proxy", "FTP_PROXY") THEN "ftp" ELSE "none"],
   ignore |-> environment["no_proxy"] = "valid"]

\* g_environment_proxy_resolver_lookup and _lookup_async.
EnvironmentLookup(l) ==
  /\ lookup[l].pc = "resolve" /\ lookup[l].via = "environment"
  /\ lookup' = [lookup EXCEPT ![l].pc = IF lookup[l].async THEN "finish" ELSE "done",
                              ![l].answer = <<SimpleLookup(EnvironmentSimple, l)>>]
  /\ UNCHANGED <<runner, resolverRest>>

\* g_environment_proxy_resolver_lookup_finish is called by
\* g_proxy_resolver_lookup_finish and calls it with the same resolver.  A caller that
\* finishes with the source object of its callback asks the base resolver instead.
EnvironmentFinish(l) ==
  /\ lookup[l].pc = "finish"
  /\ \/ overflow' = TRUE /\ UNCHANGED lookup
     \/ lookup' = [lookup EXCEPT ![l].pc = "done"] /\ UNCHANGED overflow
  /\ UNCHANGED <<settings, version, signals, need_update, cache, pacrunner, lock,
                 environment, bus, runner>>

-----------------------------------------------------------------------------
\* The application starts a lookup, and from then on none that is in progress is
\* alone ...
Lookup(l, kind) ==
  /\ lookup[l].pc = "idle"
  /\ lookup' = [k \in Lookups |->
       IF k # l THEN [lookup[k] EXCEPT !.alone = FALSE]
       ELSE [NoLookup EXCEPT
               !.pc = IF kind.via = "libproxy" THEN "thread" ELSE "resolve",
               !.via = kind.via, !.async = kind.async, !.scheme = kind.scheme,
               !.ignored = kind.ignored,
               !.alone = \A other \in Lookups : lookup[other].pc = "idle"]]
  /\ UNCHANGED <<runner, resolverRest>>

\* ... cancels it: a call on the bus and a task on a thread return at once, and
\* what they would have answered is dropped (a call that is still on its way is
\* cancelled here when it has arrived, before any later one) ...
CancelLookup(l) ==
  /\ lookup[l].pc \in {"script", "thread"}
  /\ Answer(l, <<>>)
  /\ UNCHANGED <<runner, resolverRest>>

\* ... and takes its answer; none is an error.
Take(l) ==
  /\ lookup[l].pc = "done"
  /\ lookup' = [lookup EXCEPT ![l] = NoLookup]
  /\ UNCHANGED <<runner, resolverRest>>

LookupStep(l) ==
  \/ GnomeLookup(l) \/ UpdateHttp(l) \/ UpdateHttps(l) \/ UpdateSocks(l) \/ UpdateFtp(l)
  \/ GnomeResolve(l) \/ PacCall(l) \/ HandleMethodCall(l) \/ PacRuns(l)
  \/ LibproxyThread(l) \/ EnvironmentLookup(l) \/ EnvironmentFinish(l) \/ Take(l)

Values(key) ==
  CASE key = "mode" -> {"none", "manual", "auto"}
    [] key \in {"same", "ignore"} -> BOOLEAN
    [] OTHER -> Hosts

ProxyNext ==
  /\ ~overflow
  /\ \/ \E key \in DOMAIN settings : \E value \in Values(key) : Change(key, value)
     \/ SettingsChanged
     \/ \E l \in Lookups :
          \/ LookupStep(l) \/ CancelLookup(l)
          \/ \E kind \in LookupKinds : Lookup(l, kind)

ProxySpec == ProxyInit /\ [][ProxyNext]_proxyVars
\* Threads run, mutexes are handed on, and the bus delivers.
ProxyFairSpec ==
  ProxySpec /\ \A l \in Lookups : SF_proxyVars(~overflow /\ LookupStep(l))

-----------------------------------------------------------------------------
\* What the settings mean, in one piece.
Derived ==
  LET valid(host) == settings.mode = "manual" /\ settings[host] = "valid"
  IN  [default |-> CASE settings.mode = "auto" -> "use-proxy"
                     [] valid("socks") -> "socks"
                     [] ~valid("socks") /\ valid("http") /\ settings.same -> "http"
                     [] OTHER -> "none",
       uri |-> [NoUris EXCEPT
          !["http"] = IF valid("http") THEN "http" ELSE "none",
          !["https"] = CASE valid("https") -> "https"
                         [] settings.https = "unset" /\ valid("http") -> "http"
                         [] OTHER -> "none",
          !["ftp"] = IF valid("ftp") THEN "ftp" ELSE "none"],
       ignore |-> settings.ignore]

\* Although update_settings reads one setting after the other while the user
\* changes them, the cache agrees with all of them once the resolver has been told
\* of every change and has no update to make.
CacheIsCurrent ==
  ~need_update /\ ~signals /\ lock = "none" =>
    cache.default = Derived.default /\ cache.uri = Derived.uri /\ cache.ignore = Derived.ignore

\* A lookup is answered with proxies an application can use: no invalid URI, no
\* "socks" from libproxy, the placeholder "use-proxy:" only if there is no bus to
\* find a pacrunner on, and nothing written past the end of a copied list.  The
\* script a lookup asks for is passed to libproxy in the environment of the process:
\* a lookup that was alone all the time is answered by its own script.
AnswersAreUsable ==
  /\ \A l \in Lookups : lookup[l].pc = "done" => \A i \in DOMAIN lookup[l].answer :
       LET p == lookup[l].answer[i]
       IN  /\ p # "invalid"
           /\ p = "use-proxy" => ~bus
           /\ p = "socks" => lookup[l].via = "gnome"
  /\ \A proxies \in LibproxyLists : Len(CopyProxies(proxies)) < CopyLength(proxies)
  /\ \A l \in Lookups :
       lookup[l].alone /\ lookup[l].answer = <<"pac">> => lookup[l].ran = lookup[l].script

\* Every lookup comes to an end.
LookupsEnd == \A l \in Lookups : lookup[l].pc # "idle" ~> lookup[l].pc = "idle" \/ overflow

=============================================================================
