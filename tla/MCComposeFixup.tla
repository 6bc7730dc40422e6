---------------------------- MODULE MCComposeFixup ----------------------------
\* Two services with code, a store, a model provider and a top-level model.
EXTENDS ComposeFixup

CONSTANTS app, job, db, llm, chat

MCUrlVar == [g \in {llm, chat} |-> IF g = llm THEN "LLM_URL" ELSE "CHAT_URL"]

\* A config of every kind, none, and one that a service may or may not declare.
MCLists == {{}, {"OPENAI_API_KEY"}, {"LITELLM_MASTER_KEY"}, {"CHAT_URL"},
            {"OPENAI_API_KEY", "LITELLM_MASTER_KEY", "LLM_URL"}}

Named(names) == Text([i \in DOMAIN names |-> [of |-> names[i], dns |-> FALSE]])
With(v, var) == [NoService.env EXCEPT ![v] = var]

\* A service that may depend on a gateway and use a model, with all its keys; or
\* with what it may say in its variables, of its own or of those of the gateways.
AppKeys == {[NoService EXCEPT !.deps = d, !.uses = u, !.networks = n, !.key = k,
                              !.ports = "ingress", !.env = With("DB_URL", Named(<<db>>))] :
              d \in SUBSET {llm}, u \in SUBSET {chat}, n \in BOOLEAN,
              k \in {"unset", "nil"} \union Keys}
AppVars == {[NoService EXCEPT !.deps = d, !.uses = {chat}, !.networks = TRUE, !.ports = "ingress",
                              !.endpoint = [m \in Models |-> e], !.env = vars] :
              d \in SUBSET {llm}, e \in {"CHAT_URL", "LLM_URL"},
              vars \in {With("DB_URL", Named(<<db, llm>>)), With("LLM_URL", Named(<<app>>)),
                         With("CHAT_URL", Nil), With("CHAT_URL", Named(<<app, chat>>))}}
Job == {[NoService EXCEPT !.deps = d, !.networks = TRUE, !.key = k, !.secret = c, !.ports = p,
                          !.env = With("DB_URL", Named(<<app, db>>))] :
          d \in SUBSET {llm}, k \in {"unset"} \union Keys, c \in BOOLEAN, p \in {"udp", "bad"}}
Store == {[NoService EXCEPT !.networks = TRUE, !.ports = p] : p \in {"none", "ingress"}}
Gateway == {[NoService EXCEPT !.deps = {db}, !.master = m] : m \in {"unset", "nil"}}

\* A bad port and a secret each with one job only.
OneThing(j) == (j.secret \/ j.ports = "bad") => j.key = "unset" /\ (j.secret => j.ports = "udp")

MCProjects ==
  {[s \in {app, job, db, llm} |->
      CASE s = app -> a [] s = job -> j [] s = db -> d [] s = llm -> g] :
     a \in AppKeys \union AppVars, j \in {k \in Job : OneThing(k)}, d \in Store, g \in Gateway}
===============================================================================
