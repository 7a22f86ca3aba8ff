SPECIFICATION Spec
CONSTANTS
  Ips = {"i1", "i2"}
  Reqs = {"r1", "r2"}
  Timeout = 2
  Names = {"n"}
  MaxTime = 5
  MaxSessions = 3
  Paths = {"a.css", "a.html"}
  Html = {"a.html"}
  MaxVersion = 2
  MaxFd = 3
  MaxSecond = 2
  Contexts = {"k1", "k2", "k3"}
  DbNames = {"a", "b"}
  NDatabases = 3
  PoolMax = 2
  Sqls = {"q1", "q2"}
  MaxRows = 1
  MaxLost = 1
  Announced = {0, 1, 3, 5, 6}
  BodyMax = 5
  PayloadMax = 2
  Word = 16
  MaxBytes = 8
  MaxRead = 2
  Cookies = {"x", "y"}
  Texts = {"u", "v"}
  MaxChunks = 2
  MaxCalls = 3
  Conns = {"c1", "c2", "c3"}
  MsgConns = {"m"}
INVARIANTS SessionsHeld FilesSound DatabasesServe BodyWhole CallsAgree
PROPERTIES ExpiredGoes
CHECK_DEADLOCK FALSE
