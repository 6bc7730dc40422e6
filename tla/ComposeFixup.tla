----------------------------- MODULE ComposeFixup -----------------------------
(***************************************************************************)
(* What ComposeUp does to a Compose project before it deploys it: compare  *)
(* its values with the stored configs (configResolution.go), make it ready *)
(* for the cloud (FixupServices, compose/fixup.go), validate the result.   *)
(* FixupServices ranges over Go maps, so the services come in any order:   *)
(* first the ports of every service, while model providers become access   *)
(* gateways and are wired to the services that depend on them; then a      *)
(* gateway for every top-level model; then the values of every service,    *)
(* in each of which the name of a service is replaced by its DNS name.     *)
(***************************************************************************)
EXTENDS Integers, FiniteSets, Sequences

CONSTANTS
  Services,   \* the services of the Compose file
  Gateways,   \* those with "provider: type: model"
  Stores,     \* those with a redis, postgres or mongo image or extension
  Models,     \* top-level models
  Keys,       \* API keys that a Compose file may give; "ref" is ${OPENAI_API_KEY}
  Vars,       \* the other environment variables
  UrlVar,     \* the variable for a gateway's address that Docker would set, [SERVICE]_URL
  Lists,      \* what ListConfig may return: sets of names of configs
  Projects    \* the projects to start from, functions from Services to Service

Names == Services \union Models
\* "udp": ingress mode, not over TCP; "bad": a mode that there is not.
Ports == {"none", "host", "ingress", "udp", "bad"}
Configs == {"OPENAI_API_KEY", "LITELLM_MASTER_KEY"} \union Vars
\* "unset": no such variable; "nil": declared without a value, for `defang config`;
\* "private": the literal "networkisalreadyprivate".
Values == Keys \union {"unset", "nil", "private"}

\* Of the text of a variable only the names of services count, in their order, by
\* which the service itself or its DNS name is meant.
Mention == [of : Names, dns : BOOLEAN]
Unset == [is |-> "unset", text |-> <<>>]
Nil == [is |-> "nil", text |-> <<>>]
Text(t) == [is |-> "text", text |-> t]
Variable == {Unset, Nil} \union [is : {"text"}, text : Seq(Mention)]

Service == [deps : SUBSET Names,     \* depends_on
            uses : SUBSET Models,    \* models
            endpoint : [Models -> Vars],  \* the variables for their addresses
            networks : BOOLEAN,      \* has a network map; none with a network_mode
            ports : Ports,
            key : Values,            \* OPENAI_API_KEY
            master : Values,         \* LITELLM_MASTER_KEY
            secret : BOOLEAN,        \* OPENAI_API_KEY is among its secrets
            env : [Vars -> Variable]]

\* What the loader accepts is not checked again: it refuses dependencies
\* that are circular or on no service.
ASSUME FixupAssumption ==
  /\ Gateways \subseteq Services /\ Stores \subseteq Services
  /\ Gateways \cap Stores = {} /\ Models \cap Services = {}
  /\ Keys \cap {"unset", "nil", "private"} = {}
  /\ UrlVar \in [Gateways \union Models -> Vars] /\ Lists \subseteq SUBSET Configs
  /\ Projects \subseteq [Services -> Service]
  /\ \A p \in Projects : \A s \in Services : p[s].deps \subseteq Services \ {s}

VARIABLES
  given,     \* the project as it was loaded
  config,    \* names of the stored configs, as ListConfig last returned them
  kept,      \* no config was missing from the second list but in the first
  estimate,  \* upload = UploadModeEstimate
  project,
  stage,     \* "check", "config", "services", "models", "replacer", "values",
             \* "validate", "done", "failed" or "panic"
  todo,      \* what the current range has not come to
  private, public, skipPublic   \* the ServiceNameReplacer

inputs == <<given, config, kept, estimate>>
replacer == <<private, public, skipPublic>>
fixupVars == <<inputs, project, stage, todo, replacer>>

FixupInit ==
  /\ given \in Projects /\ project = given
  /\ config \in Lists /\ kept = TRUE
  /\ estimate \in BOOLEAN
  /\ stage = "check" /\ todo = {}
  /\ private = {} /\ public = {} /\ skipPublic = FALSE

Fail(how) ==
  /\ stage' = how
  /\ todo' = {}
  /\ UNCHANGED <<inputs, project, replacer>>

Proceed(next, nextTodo) ==
  /\ stage' = next
  /\ todo' = nextTodo
  /\ UNCHANGED <<project, replacer>>

\* Fault of Missing: only what a value refers to is looked up.
MissingReferred ==
  {n \in Configs \ config : n = "OPENAI_API_KEY" /\ \E s \in Services :
     "ref" \in {given[s].key, given[s].master}}

\* ValidateProjectConfig: configs that values are left to or refer to.
Missing ==
  {n \in Configs \ config : \E s \in Services :
     \/ n = "OPENAI_API_KEY" /\ (given[s].key = "nil" \/ "ref" \in {given[s].key, given[s].master})
     \/ n = "LITELLM_MASTER_KEY" /\ given[s].master = "nil"
     \/ n \in Vars /\ given[s].env[n] = Nil}

\* ValidateServiceDockerfiles and printConfigSummaryAndValidate; an estimate
\* needs neither.
Check ==
  /\ stage = "check"
  /\ \/ (estimate \/ Missing = {}) /\ Proceed("config", {}) /\ UNCHANGED inputs
     \/ ~estimate /\ Fail("failed")

\* The provider may refuse the project.  FixupServices lists the configs again;
\* an error makes it an empty list.
ListConfig ==
  /\ stage = "config"
  /\ \/ /\ config' \in Lists \union {{}}
        /\ kept' = (config \subseteq config')
        /\ Proceed("services", Services)
        /\ UNCHANGED <<given, estimate>>
     \/ Fail("failed")

\* The range over a map has come to n.
Visit(n, next, nextTodo) ==
  /\ todo' = IF todo = {n} THEN nextTodo ELSE todo \ {n}
  /\ stage' = IF todo = {n} THEN next ELSE stage

AfterServices == IF Models = {} THEN "replacer" ELSE "models"

-----------------------------------------------------------------------------
\* A store has a host port, or there would be no CNAME for it; so has whatever
\* does not speak TCP.
FixedPorts(s) ==
  IF s \in Stores \/ project[s].ports = "udp" THEN "host" ELSE project[s].ports

FixService(s) ==
  /\ stage = "services" /\ s \in todo \ Gateways /\ project[s].ports # "bad"
  /\ project' = [project EXCEPT ![s].ports = FixedPorts(s)]
  /\ Visit(s, AfterServices, Models)
  /\ UNCHANGED <<inputs, replacer>>

\* ValidateProject, which would refuse the mode, has not been called yet.
FixPanics(s) ==
  /\ stage = "services" /\ s \in todo \ Gateways /\ project[s].ports = "bad"
  /\ Fail("panic")

\* A store without ports takes its port from PGPORT or --port: parsePortString fails.
FixFails(s) ==
  /\ stage = "services" /\ s \in todo \cap Stores /\ project[s].ports = "none"
  /\ Fail("failed")

Consumers(g) == {s \in DOMAIN project : g \in project[s].deps \union project[s].uses}

\* The values of OPENAI_API_KEY among the services that depend on g, in the order
\* they are visited until two differ.
KeysSeen(g) == {project[s].key : s \in {t \in DOMAIN project : g \in project[t].deps}} \ {"unset"}
Literals(g) == KeysSeen(g) \ {"nil"}

\* The master keys a gateway may come to have.
MasterKeys(g, own) ==
  IF own # "unset" THEN {own}
  ELSE IF Literals(g) = {} THEN {"private"}
  ELSE Literals(g)

\* A key without a value is dereferenced, unless two others differ before it;
\* a network is added to a map that is nil.
NilKey(g, own) == own = "unset" /\ "nil" \in KeysSeen(g)
NilNetworks(g) == \E s \in Consumers(g) : ~project[s].networks
MayPanic(g, own) == NilKey(g, own) \/ NilNetworks(g)
MayGoOn(g, own) == ~NilNetworks(g) /\ (NilKey(g, own) => Cardinality(Literals(g)) > 1)

\* The variables in which a service asks for the address of g, and that address.
AskedIn(svc, g) ==
  {v \in Vars : (g \in svc.deps /\ v = UrlVar[g]) \/ (g \in svc.uses /\ v = svc.endpoint[g])}
Address(g) == Text(<<[of |-> g, dns |-> FALSE]>>)

\* Fault of Wired: a variable that the service already has is set as well.
WiredAnyway(g, s, master) ==
  [project[s] EXCEPT
     !.deps = @ \union {g},
     !.key = IF @ = "unset" THEN master ELSE @,
     !.env = [v \in Vars |-> IF v \in AskedIn(project[s], g) THEN Address(g) ELSE @[v]]]

\* wireDependentServices, for one consumer s of g: what it has already, with or
\* without a value, is left alone.
Wired(g, s, master) ==
  [project[s] EXCEPT
     !.deps = @ \union {g},
     !.key = IF @ = "unset" THEN master ELSE @,
     !.env = [v \in Vars |->
       IF v \in AskedIn(project[s], g) /\ @[v] = Unset THEN Address(g) ELSE @[v]]]

\* makeAccessGatewayService: `svc` becomes the gateway g; everything that depends
\* on it or uses it is wired to it.
MakeGateway(g, svc) ==
  /\ MayGoOn(g, svc.master)
  /\ \E master \in MasterKeys(g, svc.master) :
       project' = [s \in DOMAIN project \union {g} |->
         IF s = g THEN [svc EXCEPT !.ports = "host", !.networks = TRUE, !.master = master]
         ELSE IF s \in Consumers(g) THEN Wired(g, s, master)
         ELSE project[s]]

\* fixupModelProvider
FixGateway(g) ==
  /\ stage = "services" /\ g \in todo \cap Gateways
  /\ MakeGateway(g, project[g])
  /\ Visit(g, AfterServices, Models)
  /\ UNCHANGED <<inputs, replacer>>

NoService == [deps |-> {}, uses |-> {}, endpoint |-> [m \in Models |-> UrlVar[m]],
              networks |-> FALSE, ports |-> "none", key |-> "unset", master |-> "unset",
              secret |-> FALSE, env |-> [v \in Vars |-> Unset]]

\* fixupModel: a service of its own for a top-level model.
FixModel(m) ==
  /\ stage = "models" /\ m \in todo
  /\ MakeGateway(m, NoService)
  /\ Visit(m, "replacer", {})
  /\ UNCHANGED <<inputs, replacer>>

PanicAt(g) ==
  /\ \/ stage = "services" /\ g \in todo \cap Gateways /\ MayPanic(g, project[g].master)
     \/ stage = "models" /\ g \in todo /\ MayPanic(g, "unset")
  /\ Fail("panic")

-----------------------------------------------------------------------------
\* Fault of HasHostPort: the ports are those of the Compose file.
HadHostPort(s) == s \in Services /\ given[s].ports = "host"

HasHostPort(s) == project[s].ports = "host"

\* NewServiceNameReplacer: services with a host port are private, others with
\* ports public; without a shard domain public names are left alone.
MakeReplacer ==
  /\ stage = "replacer"
  /\ private' = {s \in DOMAIN project : HasHostPort(s)}
  /\ public' = {s \in DOMAIN project : project[s].ports = "ingress"}
  /\ skipPublic' \in BOOLEAN
  /\ stage' = "values" /\ todo' = DOMAIN project
  /\ UNCHANGED <<inputs, project>>

\* Where a text has the bare name of one of S, and the leftmost such place.
Bare(t, S) == {i \in DOMAIN t : t[i].of \in S /\ ~t[i].dns}
Leftmost(I) == {i \in I : \A j \in I : i <= j}

\* replaceServiceNameWithDNS: one name of a text, and a public one only where
\* there is no private one.
Found(t) ==
  IF Bare(t, private) # {} THEN Leftmost(Bare(t, private))
  ELSE IF skipPublic THEN {} ELSE Leftmost(Bare(t, public))
Replaced(t) == [i \in DOMAIN t |-> [t[i] EXCEPT !.dns = @ \/ i \in Found(t)]]

\* A literal value gives way to a stored config of the same name.
Overridden(name, value) ==
  IF /\ value \in Keys \union {"private"} /\ name \in config
     /\ ~(value = "ref" /\ name = "OPENAI_API_KEY")
  THEN "nil" ELSE value

\* A text gives way to a config too, or has a name replaced.
FixedVar(v, var) ==
  IF var.is # "text" THEN var
  ELSE IF v \in config THEN Nil
  ELSE IF estimate THEN var ELSE Text(Replaced(var.text))

FixValues(s) ==
  /\ stage = "values" /\ s \in todo
  /\ project' = [project EXCEPT
       ![s].key = IF project[s].secret THEN "nil" ELSE Overridden("OPENAI_API_KEY", @),
       ![s].secret = FALSE,
       ![s].master = Overridden("LITELLM_MASTER_KEY", @),
       ![s].env = [v \in Vars |-> FixedVar(v, @[v])]]
  /\ Visit(s, "validate", {})
  /\ UNCHANGED <<inputs, replacer>>

\* A Dockerfile is missing, or the build context cannot be packed or uploaded.
BuildFails == stage = "values" /\ Fail("failed")

\* ValidateProject; an estimate goes without.
Validate ==
  /\ stage = "validate"
  /\ \/ Proceed("done", {}) /\ UNCHANGED inputs
     \/ ~estimate /\ Fail("failed")

FixupNext ==
  \/ Check \/ ListConfig \/ Validate
  \/ \E s \in Services : FixService(s) \/ FixPanics(s) \/ FixFails(s) \/ FixGateway(s)
  \/ \E m \in Models : FixModel(m)
  \/ \E n \in Names : PanicAt(n) \/ FixValues(n)
  \/ MakeReplacer \/ BuildFails

FixupSpec == FixupInit /\ [][FixupNext]_fixupVars

-----------------------------------------------------------------------------
\* Where a service of the Compose file expects a model.
Wanted(s) == (given[s].deps \cap Gateways) \union given[s].uses

\* Nobody gave a key, neither in the Compose file nor as a config.
NoKeys ==
  /\ config \cap {"OPENAI_API_KEY", "LITELLM_MASTER_KEY"} = {}
  /\ \A s \in Services :
       given[s].key = "unset" /\ given[s].master = "unset" /\ ~given[s].secret

NamesIn(t) == [i \in DOMAIN t |-> t[i].of]

\* What has become of a variable of s: the Compose file left it, or a config takes
\* its place, or it is the text it was but for DNS names, ...
KeptFrom(s, v) ==
  LET var == project[s].env[v] IN
  \/ var = Nil /\ (given[s].env[v] = Nil \/ v \in config)
  \/ var.is = "text" /\ given[s].env[v].is = "text"
       /\ NamesIn(var.text) = NamesIn(given[s].env[v].text)

\* ... or else it was not there, and is the address of a gateway that s asks for
\* in it; two gateways may be asked for in one variable.
AddressOfAsked(s, v) ==
  /\ given[s].env[v] = Unset /\ project[s].env[v].is = "text"
  /\ \E h \in Wanted(s) :
       v \in AskedIn(given[s], h) /\ NamesIn(project[s].env[v].text) = <<h>>

\* In whatever order the maps are ranged over, a service that depends on a model
\* or uses one depends on its gateway; each variable in which it asks for the
\* address is the one the Compose file gave it, or the address of a gateway; and
\* if nobody gave a key the key it sends is the one the gateway accepts
\* (fixup.go:523-583).
GatewaysWired ==
  stage = "done" =>
    \A s \in Services : \A g \in Wanted(s) :
      /\ g \in project[s].deps \cap DOMAIN project
      /\ \A v \in AskedIn(given[s], g) : KeptFrom(s, v) \/ AddressOfAsked(s, v)
      /\ NoKeys => project[s].key = project[g].master

\* Services that only their private DNS name reaches.
OnlyPrivate ==
  {n \in DOMAIN project :
     n \in Stores \union Gateways \union Models \/ project[n].ports = "host"}

\* No variable has, as the first such name in it, the bare name of a service that
\* only its private DNS name reaches: not of a store, nor of a gateway that was
\* made on the way, whatever comes before it and whatever the shard domain
\* (fixup.go:50, 88, 114, serviceNameReplacer.go:56).
PrivateNamesReplaced ==
  stage = "done" /\ ~estimate =>
    \A s \in DOMAIN project, v \in Vars :
      LET t == project[s].env[v].text IN
      \A i \in Bare(t, OnlyPrivate) :
        \E j \in DOMAIN t : j < i /\ t[j].dns /\ t[j].of \in OnlyPrivate

\* A gateway of the Compose file whose own key is left to a config hands its
\* services the lack of a value, under another name.
KeyOfGateway(s) == \E g \in Wanted(s) \cap Services : given[g].master = "nil"

\* What is deployed leaves no value to a config that is not stored, unless the
\* config was removed on the way: the first list is compared with the values as
\* they were loaded, and the fix-up that follows makes no new ones but of secrets
\* and of the keys of gateways (validation.go:495, fixup.go:177, 458).
ConfigsStored ==
  stage = "done" /\ ~estimate /\ kept =>
    \A s \in DOMAIN project :
      /\ project[s].master = "nil" => "LITELLM_MASTER_KEY" \in config
      /\ project[s].key = "nil" =>
           \/ "OPENAI_API_KEY" \in config
           \/ s \in Services /\ (given[s].secret \/ KeyOfGateway(s))
      /\ "ref" \in {project[s].key, project[s].master} => "OPENAI_API_KEY" \in config
      /\ \A v \in Vars : project[s].env[v] = Nil => v \in config
===============================================================================
