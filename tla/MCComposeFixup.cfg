CONSTANTS
  app = app
  job = job
  db = db
  llm = llm
  chat = chat
  Services = {app, job, db, llm}
  Gateways = {llm}
  Stores = {db}
  Models = {chat}
  Keys = {"k1", "ref"}
  Vars = {"LLM_URL", "CHAT_URL", "DB_URL"}
  UrlVar <- MCUrlVar
  Lists <- MCLists
  Projects <- MCProjects
SPECIFICATION FixupSpec
INVARIANTS ConfigsStored GatewaysWired PrivateNamesReplaced
CHECK_DEADLOCK FALSE
