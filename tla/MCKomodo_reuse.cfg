CONSTANTS
  Page = {p0, p1, p2, p3, p4, p5, p6}
  PageZero = p0
  NoPage = NoPage
  InsecurePage = {f0}
  Index = {i0}
  HostRoot = HostRoot
  Public = Public
  Mapping <- MCMapping
  Arg <- MCArg
  Addrspaces = {p0, p1}
  L1pts = {p2}
  L2pts = {p3}
  L3pts = {p4}
  Dispatchers = {p5}
  Datas = {p5, p6}
  Indices = {i0}
  Insecures = {f0}
SPECIFICATION Spec
INVARIANTS PageTables WalkConfined Confined
PROPERTIES Integrity FinalFrozen Refinement
VIEW MCView
