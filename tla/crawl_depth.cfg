SPECIFICATION Spec
CONSTANTS
  Worker = {w1}
  NoWorker = NoWorker
  home = home  news = news  about = about  deep = deep
  Url = {home, news, about, deep}
  StartPage = home
  RecursionDepth = 1
  Links <- ChainLinks
  MaxRuns = 0
INVARIANTS ReadmeDepth
CHECK_DEADLOCK FALSE
