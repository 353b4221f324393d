CONSTANTS
  a = a
  b = b
  c = c
  Nodes = {a, b}
  None = None
  Fields = {1, 2, 3}
  Identity <- GivenPriorities
  Me = b
  Scale <- OneScale
  Astray = "astray"
  Copies = 2
SPECIFICATION ClientSpec
INVARIANT PriorityIsObeyed
