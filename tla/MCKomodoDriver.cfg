CONSTANTS
  Page = {p0, p1, p2, p3, p4, p5, p6}
  PageZero = p0
  NoPage = NoPage
  InsecurePage = {f0}
  Index = {i0, i1, i2}
  HostRoot = HostRoot
  Public = Public
  Mapping <- MCMapping
  Arg <- MCArg
  addrspace = p0
  l1pt = p1
  l2pt = p2
  l3pt = p3
  disp = p4
  code = p5
  data = p6
  test_shared = f0
  CodeIndex = i0
  DataIndex = i1
  SharedIndex = i2
SPECIFICATION DriverSpec
INVARIANT TestPasses
PROPERTY Reclaimed
