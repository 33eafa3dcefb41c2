-------------------------------- MODULE Nacos --------------------------------
(***************************************************************************)
(* Startup configuration from Nacos: xconfig.New without a config file     *)
(* calls load on nacos.NewConfig("yaml"), whose Load reads the connection  *)
(* settings from the environment, creates the config client, fetches the   *)
(* content and parses it into ConfigCache; load then turns the map into    *)
(* the application's Conf. Every failure either returns an error, which   *)
(* load turns into a panic, or panics in Load itself.                      *)
(* The content is abstracted to what parseAndCacheConfig makes of it.      *)
(***************************************************************************)
CONSTANTS
    Contents        \* GetConfig results: "", "valid" or "malformed" YAML

VARIABLES
    cstage,     \* "start", then "running" or "panicked"
    ncache,     \* Config.ConfigCache: "nil" or "parsed"
    nconf       \* the Conf load filled: "unset", "zero" or "loaded"

nacosVars == <<cstage, ncache, nconf>>

Init == cstage = "start" /\ ncache = "nil" /\ nconf = "unset"

-----------------------------------------------------------------------------
(* parseAndCacheConfig: the cache is replaced only when the YAML parses.  *)
ParseAndCacheConfig(content) == IF content = "valid" THEN "parsed" ELSE ncache

(* Load's outcome: "panic" (env.Parse, missing Host, Port, UserName or     *)
(* PassWd, GetConfig error), "error" (NewConfigClient, empty content) or   *)
(* "ok" with the cache it returns.                                          *)
LoadOutcome(envOk, settingsOk, clientOk, fetchOk, content) ==
    CASE ~envOk \/ ~settingsOk -> "panic"
      [] ~clientOk             -> "error"
      [] ~fetchOk              -> "panic"
      [] content = ""          -> "error"
      [] OTHER                 -> "ok"

(* load: an error panics, so does a nil map; otherwise the map is         *)
(* marshalled and unmarshalled into the Conf.                              *)
ConfAfterLoadNoNilCheck(outcome, newCache) ==
    IF outcome # "ok" THEN "panic"
    ELSE IF newCache = "parsed" THEN "loaded" ELSE "zero"
ConfAfterLoad(outcome, newCache) ==
    IF outcome # "ok" \/ newCache = "nil" THEN "panic" ELSE "loaded"

(* xconfig.New at process start, with every input the environment and     *)
(* the Nacos server may give.                                              *)
Start ==
    /\ cstage = "start"
    /\ \E envOk, settingsOk, clientOk, fetchOk \in BOOLEAN, content \in Contents :
         LET outcome  == LoadOutcome(envOk, settingsOk, clientOk, fetchOk, content)
             newCache == IF outcome = "ok" THEN ParseAndCacheConfig(content) ELSE ncache
             result   == ConfAfterLoad(outcome, newCache)
         IN /\ ncache' = newCache
            /\ IF result = "panic"
               THEN cstage' = "panicked" /\ nconf' = "unset"
               ELSE cstage' = "running" /\ nconf' = result

Next == Start

-----------------------------------------------------------------------------
(* The process only runs with a configuration Nacos actually served and    *)
(* that parsed: malformed YAML leaves ConfigCache nil and Load returns it  *)
(* with a nil error, so it is the caller's nil check that must stop the    *)
(* start; an empty, missing or unparsable configuration never yields a     *)
(* running process with a zero Conf.                                       *)
RunsOnlyWithParsedConfig ==
    cstage = "running" => nconf = "loaded" /\ ncache = "parsed"
=============================================================================
