SPECIFICATION FairSpec
CONSTANTS
  Worker = {w1, w2, w3}
  NoWorker = NoWorker
  home = home  news = news  about = about  deep = deep
  Url = {home, news, about, deep}
  StartPage = home
  RecursionDepth = 2
  Links <- SiteLinks
  MaxRuns = 1
INVARIANTS TypeOK SleeperSeesNothing NoAbandonedLinks BreadthFirst DepthRespected CrawlComplete
PROPERTIES SleepIsForever ImplementsCrawl CrawlSettles SoleWorkerFinishes
CHECK_DEADLOCK FALSE
