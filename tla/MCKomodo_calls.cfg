CONSTANTS
  Page = {p0, p1, p2, p3}
  PageZero = p0
  NoPage = NoPage
  InsecurePage = {f0}
  Index = {i0, i1}
  HostRoot = HostRoot
  Public = Public
  Mapping <- MCMapping
  Arg <- MCArg
  Addrspaces = {p0, p1, p2, p3, NoPage}
  L1pts = {p0, p1, p2, p3, NoPage}
  L2pts = {p0, p1, p2, p3, NoPage}
  L3pts = {p0, p1, p2, p3, NoPage}
  Dispatchers = {p0, p1, p2, p3, NoPage}
  Datas = {p0, p1, p2, p3, NoPage}
  Indices = {i0, i1, BadIndex}
  Insecures = {f0, NoPage}
SPECIFICATION Spec
INVARIANTS TypeOK Ownership Refcount NoAlias WorldSwitch ResumePoint
VIEW MCView
SYMMETRY MCSymmetry
