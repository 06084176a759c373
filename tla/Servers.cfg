SPECIFICATION ServersSpec
CONSTANTS
  Clients = {1, 2, 3, 4}
  Limit = 2
  AsioPeers = {1, 2}
  MaxBytes = 2
  MaxLen = 2
  Window = 1
  TinyClients = {1, 2}
  MaxLines = 3
  Threads = {t1, t2, t3}
  Values = {a, b}
  NoVal = NoVal
  MaxItems = 2
INVARIANTS RoundExact EchoExact NoPopFromEmpty
PROPERTIES LineIsAnswered ServedInFull TinyInTurn Linearizable BacklogServed
CHECK_DEADLOCK FALSE
