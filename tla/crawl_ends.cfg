SPECIFICATION AnsweredSpec
CONSTANTS
  Worker = {w1, w2}
  NoWorker = NoWorker
  home = home  news = news  about = about  deep = deep
  Url = {home, news, about, deep}
  StartPage = home
  RecursionDepth = 1
  Links <- SiteLinks
  MaxRuns = 0
PROPERTIES CrawlEnds
CHECK_DEADLOCK FALSE
