SPECIFICATION Spec
CONSTANTS
  None = none
  MaxMoves = 4
  MaxMisses = 1
  Items = {i1, i2}
  i1 = i1
  i2 = i2
  HitCount <- MCHitCount
  Hosts = {h1, h2}
  First = h1
  Branches = {main, dev}
  Default = main
  Texts = {blank, t1}
  Blank = blank
  Template = template
  Addrs = {a1, a2}
  Contents = {c1, c2}
  FirstTemplate = template
  Vals = {x1, x2}
  MHosts = {h1, h2}
  Accounts = {g1, g2}
  Names = {n1, n2}
  Envs = {e1, e2}
  Pkgs = {p1, p2, p3}
  Urgent = {p1}
  Parts = {r1, r2}
  Keys = {k1, k2}
  KeyVals = {v1, v2}
  Rows = {w1, w2}
  Watched = {m1}
  hn1 = hn1
  hn2 = hn2
  any = any
  ad1 = ad1
  ad2 = ad2
  HostNames = {hn1, hn2, hn3}
  Wild = {any}
  Lines <- MCLines
  MaxText = 3
  Labels = {n1, n2}
  web = web
  loose = loose
  q1 = q1
  CtrNames <- MCCtrNames
  Looks <- MCLooks
  StackOf <- MCStackOf
  NoStack = loose
  Queries = {q1}
  Found <- MCFound
  TagNames = {tag1, tag2, tag3}
  Digests = {d1, d2}
  Logins = {l1, l2, l3}
  GoodLogins = {l1}
  MaxLines = 2
  MaxStreams = 2
  MaxSent = 3
  Shells = {sh}
  Logs = lg
  Ssh = {s1}
  HostKeys = {f1, f2}
  RecentMax = 2
  MaxTabs = 2
  MaxRuns = 2
INVARIANTS
    ScreenIsCoherent
    
    
    OnlyTestedIsSaved
    
    ToldAsItWas
PROPERTIES
    ActsOnWhatWasAsked
    
    WaitsEnd
CHECK_DEADLOCK FALSE
